---- MODULE Spec2Model ----
(***************************************************************************)
(* A model of the actor execution core of forest: the payment-channel      *)
(* actor (vm/actor/src/builtin/paych/mod.rs) and the storage-market actor  *)
(* (vm/actor/src/builtin/market/mod.rs), each run against the runtime      *)
(* capability they are invoked through.                                    *)
(*                                                                         *)
(* One action models one whole method invocation.  The record `last` /     *)
(* `mlast` holds what the message executor observes of the invocation that *)
(* just returned (method, exit code, arguments, the runtime calls made in  *)
(* order, the state before the call); the executor then takes the receipt  *)
(* (PaychReturn / MarketReturn) before it dispatches the next message.     *)
(***************************************************************************)
EXTENDS Integers, Sequences, FiniteSets, TLC

(***************************************************************************)
(* Bounds of the model.                                                    *)
(***************************************************************************)
MaxLane == 3        \* lane ids are 1..MaxLane
MaxAmount == 1      \* voucher amounts are 0..MaxAmount
MaxNonce == 2       \* voucher and merge nonces are 0..MaxNonce
MaxMerges == 2      \* a voucher carries at most MaxMerges merge entries
MaxHeight == 2      \* a voucher's min_settle_height is 0..MaxHeight
MaxEpoch == 1       \* the chain epoch runs 0..MaxEpoch
MaxBalance == 1     \* the channel actor's balance is 0..MaxBalance
MaxEscrow == 2      \* an escrow balance of the market is 0..MaxEscrow
MaxDeals == 2       \* the market publishes at most MaxDeals deals
MaxMarketEpoch == 1 \* the market's chain epoch runs 0..MaxMarketEpoch
MaxMethodNum == 10  \* invoke_method is called with method numbers 0..MaxMethodNum
MaxGas == 8         \* the gas limit of a message is MaxGas - 1 or MaxGas
MaxDataLen == 1     \* syscall data is 0..MaxDataLen bytes long
MaxId == 1024       \* the largest actor id of an ID address
MaxBytesLen == 3    \* from_bytes is given every string of 0..MaxBytesLen sample bytes
MaxBit == 3         \* a bit field holds bits 0..MaxBit
MaxKey == 4         \* HAMT keys are 1..MaxKey
MaxPointers == 4    \* a cached node holds 0..MaxPointers pointers
MaxMappings == 3    \* the init State hands out at most MaxMappings ids

(***************************************************************************)
(* Program constants.  paych/types.rs is not among the sources; the text   *)
(* fixes neither value ("implementation-chosen"), so the model uses small  *)
(* positive ones.                                                          *)
(***************************************************************************)
LANE_LIMIT == 2
SETTLE_DELAY == 1

(***************************************************************************)
(* Exit codes.                                                             *)
(***************************************************************************)
Ok == "Ok"
ErrIllegalArgument == "ErrIllegalArgument"
ErrIllegalState == "ErrIllegalState"
ErrForbidden == "ErrForbidden"
ErrInsufficientFunds == "ErrInsufficientFunds"
ErrSerialization == "ErrSerialization"
ErrNotFound == "ErrNotFound"
SysErrForbidden == "SysErrForbidden"
SysErrInvalidMethod == "SysErrInvalidMethod"
SysErrorIllegalActor == "SysErrorIllegalActor"
SendFailed == "SendFailed"

CalleeError == "CalleeError"

(***************************************************************************)
(* Addresses and actor kinds known to the runtime.                         *)
(***************************************************************************)
InitActor == "init"
AcctA == "acctA"          \* an account actor (ID form)
AcctB == "acctB"          \* an account actor (ID form)
AcctC == "acctC"          \* an account actor that is no party of the channel
MinerM == "minerM"        \* a storage-miner actor
Unknown == "unknown"      \* an address that does not resolve
NoAddr == "-"

IsAccount(a) == a \in {AcctA, AcctB, AcctC}

VARIABLES
    created,            \* paych: rt.create has stored a State
    from,               \* paych State.from
    to,                 \* paych State.to
    to_send,            \* paych State.to_send
    settling_at,        \* paych State.settling_at
    min_settle_height,  \* paych State.min_settle_height
    lane_states,        \* paych State.lane_states
    balance,            \* rt.current_balance() of the channel actor
    curr_epoch,         \* rt.curr_epoch()
    last,               \* paych: the invocation that just returned, or NoCall
    m_created,          \* market: rt.create has stored a State
    proposals,          \* market State.proposals: deal id -> DealProposal
    states,             \* market State.states: deal id -> DealState
    pending_proposals,  \* market State.pending_proposals, keyed by proposal CID
    escrow_table,       \* market State.escrow_table
    locked_table,       \* market State.locked_table
    deal_ops_by_epoch,  \* market State.deal_ops_by_epoch: <<epoch, deal id>>
    next_id,            \* market State.next_id
    last_cron,          \* market State.last_cron
    m_epoch,            \* rt.curr_epoch() as the market sees it
    mlast,              \* market: the invocation that just returned, or MNoCall
    gas_limit,          \* GasTracker: the gas available to the message
    gas_start,          \* GasTracker: gas_used at construction
    gas_used,           \* GasTracker.gas_used
    gas_charged,        \* the sum of the charges made since construction
    gas_failed,         \* some charge has failed
    glast,              \* syscalls: the call whose result is pending
    address,            \* the Address the caller holds, or NoAddress
    alast,              \* addresses: the last operation, its input and its result
    bf_ranges,          \* BitField.ranges
    bf_set,             \* BitField.set
    bf_unset,           \* BitField.unset
    bf_touched,         \* per bit, the last of set / unset applied to it, or "none"
    blast,              \* bit field: the last operation, its arguments and its result
    pointer,            \* HAMT: the Pointer the parent node holds, or NoPointer
    hlast,              \* HAMT: the pointer operation whose result is pending
    address_map,        \* init State.address_map: the pairs <<address bytes, ActorID>>
    init_next_id,       \* init State.next_id
    mapped,             \* init: the address and the returned id of every mapping made
    ilast               \* init: the State method that just returned, or INoCall

paychVars == <<created, from, to, to_send, settling_at, min_settle_height,
               lane_states, balance, curr_epoch, last>>

marketVars == <<m_created, proposals, states, pending_proposals, escrow_table,
                locked_table, deal_ops_by_epoch, next_id, last_cron, m_epoch, mlast>>

gasVars == <<gas_limit, gas_start, gas_used, gas_charged, gas_failed, glast>>

\* the state of the libraries the actors run on
addrVars == <<address, alast>>

bfVars == <<bf_ranges, bf_set, bf_unset, bf_touched, blast>>

hamtVars == <<pointer, hlast>>

initVars == <<address_map, init_next_id, mapped, ilast>>

utilVars == <<bfVars, hamtVars, initVars>>

libVars == <<gasVars, addrVars, utilVars>>

vars == <<paychVars, marketVars, libVars>>

(***************************************************************************)
(* The payment-channel State as one value, and the runtime-call log.       *)
(***************************************************************************)
PaychState == [from |-> from, to |-> to, to_send |-> to_send,
               settling_at |-> settling_at,
               min_settle_height |-> min_settle_height,
               lane_states |-> lane_states]

Call(op) == [op |-> op, to |-> NoAddr, value |-> 0]
Send(a, v) == [op |-> "send", to |-> a, value |-> v]

NoVoucher == [lane |-> 0, amount |-> 0, nonce |-> 0, merges |-> <<>>,
              min_settle_height |-> 0]
NoState == [from |-> NoAddr, to |-> NoAddr, to_send |-> 0, settling_at |-> 0,
            min_settle_height |-> 0, lane_states |-> <<>>]
NoEnv == [caller |-> NoAddr, signed_by |-> "none", time_lock_min |-> 0,
          time_lock_max |-> 0, secret |-> "none", extra |-> "none"]
NoCall == [method |-> "none", num |-> 0, code |-> Ok, caller |-> NoAddr, env |-> NoEnv,
           sv |-> NoVoucher, trace |-> <<>>, pre |-> NoState, bal |-> 0, epoch |-> 0]

(***************************************************************************)
(* Method numbers: FromPrimitive::from_u64 on the Method enum of each      *)
(* actor, "None" when no variant has the number.                           *)
(***************************************************************************)
MethodNums == 0..MaxMethodNum

paych_from_u64(n) ==
    CASE n = 1 -> "Constructor"
      [] n = 2 -> "UpdateChannelState"
      [] n = 3 -> "Settle"
      [] n = 4 -> "Collect"
      [] OTHER -> "None"

market_from_u64(n) ==
    CASE n = 1 -> "Constructor"
      [] n = 2 -> "AddBalance"
      [] n = 3 -> "WithdrawBalance"
      [] n = 4 -> "PublishStorageDeals"
      [] n = 5 -> "VerifyDealsForActivation"
      [] n = 6 -> "ActivateDeals"
      [] n = 7 -> "OnMinerSectorsTerminate"
      [] n = 8 -> "ComputeDataCommitment"
      [] n = 9 -> "CronTick"
      [] OTHER -> "None"

\* the number of a method of the table
PaychMethodNum(method) == CHOOSE n \in MethodNums : paych_from_u64(n) = method
MarketMethodNum(method) == CHOOSE n \in MethodNums : market_from_u64(n) = method

(***************************************************************************)
(* rt.transaction: loads the state, runs the closure, and keeps the        *)
(* closure's state only when the closure returns Ok.                       *)
(***************************************************************************)
TransactionKeepsErr(st, r) == r.st
transaction(st, r) == IF r.code = Ok THEN r.st ELSE st

(***************************************************************************)
(* find_lane: binary search of the lanes (0-based index, found flag).      *)
(***************************************************************************)
RECURSIVE binary_search(_, _, _, _)
binary_search(lanes, id, lo, hi) ==
    IF lo >= hi THEN [idx |-> lo, exists |-> FALSE]
    ELSE LET mid == (lo + hi) \div 2
             l == lanes[mid + 1].id
         IN IF l = id THEN [idx |-> mid, exists |-> TRUE]
            ELSE IF l < id THEN binary_search(lanes, id, mid + 1, hi)
            ELSE binary_search(lanes, id, lo, mid)

find_lane(lanes, id) == binary_search(lanes, id, 0, Len(lanes))

\* Vec::insert(idx, x), idx 0-based
VecInsert(s, idx, x) == SubSeq(s, 1, idx) \o <<x>> \o SubSeq(s, idx + 1, Len(s))

(***************************************************************************)
(* update_channel_state, the loop over sv.merges: returns the exit code,   *)
(* the lanes as mutated so far and the sum of the merged lanes' redeemed.  *)
(***************************************************************************)
RECURSIVE merge_loop(_, _, _, _, _)
merge_loop(lanes, sv_lane, merges, i, redeemed) ==
    IF i > Len(merges) THEN [code |-> Ok, lanes |-> lanes, redeemed |-> redeemed]
    ELSE LET merge == merges[i]
             f == find_lane(lanes, merge.lane)
         IN IF merge.lane = sv_lane
            THEN [code |-> ErrIllegalArgument, lanes |-> lanes, redeemed |-> redeemed]
            ELSE IF f.exists
            THEN IF lanes[f.idx + 1].nonce >= merge.nonce
                 THEN [code |-> ErrIllegalArgument, lanes |-> lanes, redeemed |-> redeemed]
                 ELSE merge_loop([lanes EXCEPT ![f.idx + 1].nonce = merge.nonce],
                                 sv_lane, merges, i + 1,
                                 redeemed + lanes[f.idx + 1].redeemed)
            ELSE [code |-> ErrIllegalArgument, lanes |-> lanes, redeemed |-> redeemed]

\* the balance delta of a voucher (step 2 of the closure)
DeltaIgnoresMerges(amount, redeemed, lane_redeemed) == amount - lane_redeemed
DeltaCountsLaneTwice(amount, redeemed, lane_redeemed) ==
    amount - (redeemed + 2 * lane_redeemed)
balance_delta(amount, redeemed, lane_redeemed) == amount - (redeemed + lane_redeemed)

\* the nonce check on the voucher's lane
nonce_outdated(lane_nonce, sv_nonce) == lane_nonce > sv_nonce

\* the new lane's position
InsertLaneAtEnd(lanes, idx, l) == Append(lanes, l)
insert_lane(lanes, idx, l) == VecInsert(lanes, idx, l)

\* step 4 of the closure: the validity of the new to_send
ExceedsBalanceOffByOne(new_send_balance, curr_bal) == new_send_balance > curr_bal + 1
exceeds_balance(new_send_balance, curr_bal) == new_send_balance > curr_bal

\* the settle-height update at the end of the closure
SettleUpdateOnlyMin(st, sv) ==
    IF st.min_settle_height < sv.min_settle_height
    THEN [st EXCEPT !.min_settle_height = sv.min_settle_height] ELSE st

settle_update(st, sv) ==
    IF sv.min_settle_height # 0
    THEN LET s1 == IF st.settling_at # 0 /\ st.settling_at < sv.min_settle_height
                   THEN [st EXCEPT !.settling_at = sv.min_settle_height] ELSE st
         IN IF s1.min_settle_height < sv.min_settle_height
            THEN [s1 EXCEPT !.min_settle_height = sv.min_settle_height] ELSE s1
    ELSE st

(***************************************************************************)
(* update_channel_state, the closure given to rt.transaction: the exit     *)
(* code and the state as the closure leaves it (mutations made before an   *)
(* early return included).                                                 *)
(***************************************************************************)
ucs_closure(st, sv, curr_bal) ==
    LET f == find_lane(st.lane_states, sv.lane)
        idx == f.idx + 1
    IN
    IF ~f.exists /\ Len(st.lane_states) >= LANE_LIMIT
    THEN [code |-> ErrIllegalArgument, st |-> st]
    ELSE
    LET lanes1 == IF f.exists THEN st.lane_states
                  ELSE insert_lane(st.lane_states, f.idx,
                                   [id |-> sv.lane, redeemed |-> 0, nonce |-> 0])
        st1 == [st EXCEPT !.lane_states = lanes1]
    IN
    IF nonce_outdated(lanes1[idx].nonce, sv.nonce)
    THEN [code |-> ErrIllegalArgument, st |-> st1]
    ELSE
    LET m == merge_loop(lanes1, sv.lane, sv.merges, 1, 0)
        st2 == [st EXCEPT !.lane_states = m.lanes]
    IN
    IF m.code # Ok THEN [code |-> m.code, st |-> st2]
    ELSE
    LET lanes2 == [m.lanes EXCEPT ![idx].nonce = sv.nonce]
        delta == balance_delta(sv.amount, m.redeemed, lanes2[idx].redeemed)
        lanes3 == [lanes2 EXCEPT ![idx].redeemed = sv.amount]
        st3 == [st EXCEPT !.lane_states = lanes3]
        new_send_balance == st.to_send + delta
    IN
    IF new_send_balance < 0 THEN [code |-> ErrIllegalState, st |-> st3]
    ELSE IF exceeds_balance(new_send_balance, curr_bal)
    THEN [code |-> ErrIllegalState, st |-> st3]
    ELSE [code |-> Ok,
          st |-> settle_update([st3 EXCEPT !.to_send = new_send_balance], sv)]

(***************************************************************************)
(* The inputs of update_channel_state.  The voucher fields read before the *)
(* transaction (caller, signature, time locks, secret, extra) vary one at  *)
(* a time around a voucher that passes; the fields read inside it vary     *)
(* freely.                                                                 *)
(***************************************************************************)
Lanes == 1..MaxLane
Amounts == 0..MaxAmount
Nonces == 0..MaxNonce
Heights == 0..MaxHeight
Merges == [lane : Lanes, nonce : 1..MaxNonce]

RECURSIVE SeqsUpTo(_, _)
SeqsUpTo(S, n) ==
    IF n = 0 THEN {<<>>}
    ELSE LET shorter == SeqsUpTo(S, n - 1)
         IN shorter \cup {Append(q, x) : q \in {r \in shorter : Len(r) = n - 1}, x \in S}

MergeLists == SeqsUpTo(Merges, MaxMerges)

\* vouchers that exercise the lanes: no min_settle_height
LaneVouchers == [lane : Lanes, amount : Amounts, nonce : Nonces,
                 merges : MergeLists, min_settle_height : {0}]

\* vouchers that exercise the settle height: one lane, no merges
SettleVouchers == [lane : {1}, amount : Amounts, nonce : {MaxNonce},
                   merges : {<<>>}, min_settle_height : Heights]

PassingEnv == [caller |-> AcctA, signed_by |-> AcctB, time_lock_min |-> 0,
               time_lock_max |-> 0, secret |-> "none", extra |-> "none"]

OtherEnvelopes ==
    {[PassingEnv EXCEPT !.caller = AcctB, !.signed_by = AcctA]}
    \cup {[PassingEnv EXCEPT !.caller = AcctC]}
    \cup {[PassingEnv EXCEPT !.signed_by = s] : s \in {"none", AcctA}}
    \cup {[PassingEnv EXCEPT !.time_lock_min = MaxEpoch]}
    \cup {[PassingEnv EXCEPT !.time_lock_max = 1]}
    \cup {[PassingEnv EXCEPT !.secret = s] : s \in {"good", "bad"}}
    \cup {[PassingEnv EXCEPT !.extra = s] : s \in {"ok", "fail"}}

ProbeVoucher == [lane |-> 1, amount |-> 0, nonce |-> MaxNonce, merges |-> <<>>,
                 min_settle_height |-> 0]

UcsInputs(VS) ==
    {[env |-> PassingEnv, sv |-> v] : v \in VS}
    \cup {[env |-> e, sv |-> ProbeVoucher] : e \in OtherEnvelopes}

(***************************************************************************)
(* rt.validate_immediate_caller_is / _type: SysErrForbidden unless the     *)
(* caller matches.                                                         *)
(***************************************************************************)
ValidateAcceptsAll(caller, allowed) == Ok

validate_immediate_caller(caller, allowed) ==
    IF caller \in allowed THEN Ok ELSE SysErrForbidden

(***************************************************************************)
(* update_channel_state up to rt.transaction: the exit code and the        *)
(* runtime calls made, in order.                                           *)
(***************************************************************************)
ucs_prechecks(env) ==
    LET t1 == <<Call("state"), Call("validate_immediate_caller_is")>>
        signer == IF env.caller = from THEN to ELSE from
        t2 == t1 \o <<Call("verify_signature")>>
        t3 == IF env.secret # "none" THEN t2 \o <<Call("hash_blake2b")>> ELSE t2
        t4 == IF env.extra # "none" THEN t3 \o <<Send("extra", 0)>> ELSE t3
    IN
    IF validate_immediate_caller(env.caller, {from, to}) # Ok
    THEN [code |-> SysErrForbidden, trace |-> t1]
    ELSE IF env.signed_by = "none" THEN [code |-> ErrIllegalArgument, trace |-> t1]
    ELSE IF env.signed_by # signer THEN [code |-> ErrIllegalArgument, trace |-> t2]
    ELSE IF curr_epoch < env.time_lock_min THEN [code |-> ErrIllegalArgument, trace |-> t2]
    ELSE IF env.time_lock_max # 0 /\ curr_epoch > env.time_lock_max
    THEN [code |-> ErrIllegalArgument, trace |-> t2]
    ELSE IF env.secret = "bad" THEN [code |-> ErrIllegalArgument, trace |-> t3]
    ELSE IF env.extra = "fail" THEN [code |-> CalleeError, trace |-> t4]
    ELSE [code |-> Ok, trace |-> t4 \o <<Call("current_balance"), Call("transaction")>>]

SetPaychState(st) ==
    /\ from' = st.from
    /\ to' = st.to
    /\ to_send' = st.to_send
    /\ settling_at' = st.settling_at
    /\ min_settle_height' = st.min_settle_height
    /\ lane_states' = st.lane_states

Record(method, code, caller, env, sv, trace) ==
    last' = [method |-> method, num |-> PaychMethodNum(method), code |-> code,
             caller |-> caller, env |-> env,
             sv |-> sv, trace |-> trace,
             pre |-> PaychState, bal |-> balance, epoch |-> curr_epoch]

(***************************************************************************)
(* Method 1, Constructor.                                                  *)
(***************************************************************************)
resolve_account(raw) ==
    IF raw = Unknown THEN "Err" ELSE IF ~IsAccount(raw) THEN "Err" ELSE raw

paych_constructor ==
    /\ last = NoCall
    /\ UNCHANGED <<marketVars, libVars>>
    /\ \E caller \in {InitActor, AcctA},
          pfrom \in {AcctA, MinerM, Unknown}, pto \in {AcctB, MinerM, Unknown} :
        LET t1 == <<Call("validate_immediate_caller_type")>>
            t2 == t1 \o <<Call("create")>>
            code == IF validate_immediate_caller(caller, {InitActor}) # Ok
                    THEN SysErrForbidden
                    ELSE IF resolve_account(pto) = "Err" THEN ErrIllegalArgument
                    ELSE IF resolve_account(pfrom) = "Err" THEN ErrIllegalArgument
                    ELSE IF created THEN SysErrorIllegalActor
                    ELSE Ok
            reached == code \in {Ok, SysErrorIllegalActor}
        IN /\ Record("Constructor", code, caller, NoEnv, NoVoucher,
                     IF reached THEN t2 ELSE t1)
           /\ IF code = Ok
              THEN /\ created' = TRUE
                   /\ SetPaychState([from |-> resolve_account(pfrom),
                                     to |-> resolve_account(pto), to_send |-> 0,
                                     settling_at |-> 0, min_settle_height |-> 0,
                                     lane_states |-> <<>>])
              ELSE UNCHANGED <<created, from, to, to_send, settling_at,
                               min_settle_height, lane_states>>
           /\ UNCHANGED <<balance, curr_epoch>>

(***************************************************************************)
(* Method 2, UpdateChannelState.                                           *)
(***************************************************************************)
update_channel_state(VS) ==
    /\ created /\ last = NoCall
    /\ UNCHANGED <<marketVars, libVars>>
    /\ \E in \in UcsInputs(VS) :
        LET p == ucs_prechecks(in.env)
            r == ucs_closure(PaychState, in.sv, balance)
        IN IF p.code # Ok
           THEN /\ Record("UpdateChannelState", p.code, in.env.caller, in.env, in.sv, p.trace)
                /\ UNCHANGED <<created, from, to, to_send, settling_at,
                               min_settle_height, lane_states, balance, curr_epoch>>
           ELSE /\ Record("UpdateChannelState", r.code, in.env.caller, in.env, in.sv, p.trace)
                /\ SetPaychState(transaction(PaychState, r))
                /\ UNCHANGED <<created, balance, curr_epoch>>

(***************************************************************************)
(* Method 3, Settle.                                                       *)
(***************************************************************************)
SettleIgnoresMinHeight(st, epoch) ==
    IF st.settling_at # 0 THEN [code |-> ErrIllegalState, st |-> st]
    ELSE [code |-> Ok, st |-> [st EXCEPT !.settling_at = epoch + SETTLE_DELAY]]
settle_closure(st, epoch) ==
    IF st.settling_at # 0 THEN [code |-> ErrIllegalState, st |-> st]
    ELSE LET s1 == [st EXCEPT !.settling_at = epoch + SETTLE_DELAY]
         IN [code |-> Ok,
             st |-> IF s1.settling_at < s1.min_settle_height
                    THEN [s1 EXCEPT !.settling_at = s1.min_settle_height] ELSE s1]

settle ==
    /\ created /\ last = NoCall
    /\ UNCHANGED <<marketVars, libVars>>
    /\ \E caller \in {AcctA, AcctB, AcctC} :
        LET t1 == <<Call("curr_epoch"), Call("state"), Call("validate_immediate_caller_is")>>
        IN IF validate_immediate_caller(caller, {from, to}) # Ok
           THEN /\ Record("Settle", SysErrForbidden, caller, NoEnv, NoVoucher, t1)
                /\ UNCHANGED <<created, from, to, to_send, settling_at,
                               min_settle_height, lane_states, balance, curr_epoch>>
           ELSE LET r == settle_closure(PaychState, curr_epoch)
                IN /\ Record("Settle", r.code, caller, NoEnv, NoVoucher,
                             t1 \o <<Call("transaction")>>)
                   /\ SetPaychState(transaction(PaychState, r))
                   /\ UNCHANGED <<created, balance, curr_epoch>>

(***************************************************************************)
(* Method 4, Collect.  `fails` is the send that fails (0: none).  A failed *)
(* invocation's earlier send is kept or undone by the executor.            *)
(***************************************************************************)
CollectForbiddenAtSettlingAt(st, epoch) == st.settling_at = 0 \/ epoch <= st.settling_at
collect_forbidden(st, epoch) == st.settling_at = 0 \/ epoch < st.settling_at

\* the remaining balance sent to `from`
RemainingIsWholeBalance(bal, st) == bal
remaining_balance(bal, st) == bal - st.to_send

collect ==
    /\ created /\ last = NoCall
    /\ UNCHANGED <<marketVars, libVars>>
    /\ \E caller \in {AcctA, AcctB, AcctC}, fails \in 0..2, undone \in BOOLEAN :
        LET st == PaychState
            t1 == <<Call("state"), Call("validate_immediate_caller_is")>>
            t2 == t1 \o <<Call("curr_epoch"), Call("current_balance")>>
            rem_bal == remaining_balance(balance, st)
            t3 == t2 \o <<Send(st.from, rem_bal)>>
            t4 == t3 \o <<Send(st.to, st.to_send)>>
            t5 == t4 \o <<Call("transaction")>>
            same == UNCHANGED <<created, from, to, to_send, settling_at,
                                min_settle_height, lane_states>>
        IN IF validate_immediate_caller(caller, {from, to}) # Ok
           THEN /\ Record("Collect", SysErrForbidden, caller, NoEnv, NoVoucher, t1)
                /\ same /\ UNCHANGED <<balance, curr_epoch>>
           ELSE IF collect_forbidden(st, curr_epoch)
           THEN /\ Record("Collect", ErrForbidden, caller, NoEnv, NoVoucher, t1 \o <<Call("curr_epoch")>>)
                /\ same /\ UNCHANGED <<balance, curr_epoch>>
           ELSE IF rem_bal < 0
           THEN /\ Record("Collect", ErrInsufficientFunds, caller, NoEnv, NoVoucher, t2)
                /\ same /\ UNCHANGED <<balance, curr_epoch>>
           ELSE IF fails = 1
           THEN /\ Record("Collect", SendFailed, caller, NoEnv, NoVoucher, t3)
                /\ same /\ UNCHANGED <<balance, curr_epoch>>
           ELSE IF fails = 2
           THEN /\ Record("Collect", SendFailed, caller, NoEnv, NoVoucher, t4)
                /\ same
                /\ balance' = IF undone THEN balance ELSE balance - rem_bal
                /\ UNCHANGED curr_epoch
           ELSE /\ Record("Collect", Ok, caller, NoEnv, NoVoucher, t5)
                /\ SetPaychState(transaction(st, [code |-> Ok, st |-> [st EXCEPT !.to_send = 0]]))
                /\ balance' = balance - rem_bal - st.to_send
                /\ UNCHANGED <<created, curr_epoch>>

(***************************************************************************)
(* The executor takes the receipt; the chain advances; funds arrive.       *)
(***************************************************************************)
(***************************************************************************)
(* invoke_method with a number that is no method: the default arm aborts   *)
(* through the runtime.                                                    *)
(***************************************************************************)
PaychDefaultArmOk(method) == [code |-> Ok, trace |-> <<Call("abort")>>]

paych_invoke_default(method) ==
    [code |-> SysErrInvalidMethod, trace |-> <<Call("abort")>>]

paych_invalid_method ==
    /\ last = NoCall
    /\ UNCHANGED <<marketVars, libVars>>
    /\ \E method \in MethodNums :
        /\ paych_from_u64(method) = "None"
        /\ last' = [method |-> "None", num |-> method,
                    code |-> paych_invoke_default(method).code, caller |-> AcctA,
                    env |-> NoEnv, sv |-> NoVoucher,
                    trace |-> paych_invoke_default(method).trace,
                    pre |-> PaychState, bal |-> balance, epoch |-> curr_epoch]
    /\ UNCHANGED <<created, from, to, to_send, settling_at, min_settle_height,
                   lane_states, balance, curr_epoch>>

PaychReturn ==
    /\ last # NoCall
    /\ UNCHANGED <<marketVars, libVars>>
    /\ last' = NoCall
    /\ UNCHANGED <<created, from, to, to_send, settling_at, min_settle_height,
                   lane_states, balance, curr_epoch>>

Tick ==
    /\ last = NoCall /\ curr_epoch < MaxEpoch
    /\ UNCHANGED <<marketVars, libVars>>
    /\ curr_epoch' = curr_epoch + 1
    /\ UNCHANGED <<created, from, to, to_send, settling_at, min_settle_height,
                   lane_states, balance, last>>

Deposit ==
    /\ last = NoCall /\ balance < MaxBalance
    /\ UNCHANGED <<marketVars, libVars>>
    /\ balance' = MaxBalance
    /\ UNCHANGED <<created, from, to, to_send, settling_at, min_settle_height,
                   lane_states, curr_epoch, last>>

(***************************************************************************)
(* The storage-market actor.                                               *)
(*                                                                         *)
(* Addresses: the singleton actors, a client known by its ID address and   *)
(* by a key address, a miner with its owner and worker, a second miner.    *)
(***************************************************************************)
SystemActor == "system"
CronActor == "cron"
RewardActor == "reward"
PowerActor == "power"
VerifregActor == "verifreg"
BurntFunds == "burnt"
Client == "client"            \* an account actor (ID form)
ClientKey == "clientKey"      \* the key address of Client
Owner == "owner"              \* an account actor, owner of MinerM
Worker == "worker"            \* an account actor, worker of MinerM
MinerN == "minerN"            \* a second storage-miner actor
OwnerN == "ownerN"
WorkerN == "workerN"

EPOCH_UNDEFINED == -1

\* rt.get_actor_code_cid
CodeOf(a) ==
    IF a \in {Client, Owner, Worker, OwnerN, WorkerN, AcctA, AcctB, AcctC} THEN "account"
    ELSE IF a \in {MinerM, MinerN} THEN "miner"
    ELSE IF a = SystemActor THEN "system"
    ELSE IF a = CronActor THEN "cron"
    ELSE IF a = InitActor THEN "init"
    ELSE "none"

CALLER_TYPES_SIGNABLE == {"account", "multisig"}

\* resolve_address: an ID address as it is, a key address through the
\* address map, NoAddr when the map has no entry
IsIdAddress(a) == a \notin {ClientKey, Unknown}
resolve_address(a) ==
    IF IsIdAddress(a) THEN a ELSE IF a = ClientKey THEN Client ELSE NoAddr

\* the miner's ControlAddresses method, as the market calls it
request_miner_control_addrs(m) ==
    IF m = MinerM THEN [owner |-> Owner, worker |-> Worker]
    ELSE [owner |-> OwnerN, worker |-> WorkerN]

(***************************************************************************)
(* The market State as one value, and the record of an invocation.         *)
(***************************************************************************)
Holders == {Client, MinerM}     \* the keys the balance tables can hold

MarketState ==
    [proposals |-> proposals, states |-> states,
     pending_proposals |-> pending_proposals,
     escrow_table |-> escrow_table, locked_table |-> locked_table,
     deal_ops_by_epoch |-> deal_ops_by_epoch,
     next_id |-> next_id, last_cron |-> last_cron]

EmptyMarketState ==
    [proposals |-> <<>>, states |-> <<>>, pending_proposals |-> {},
     escrow_table |-> [a \in Holders |-> 0], locked_table |-> [a \in Holders |-> 0],
     deal_ops_by_epoch |-> {}, next_id |-> 0, last_cron |-> EPOCH_UNDEFINED]

SetMarketState(st) ==
    /\ proposals' = st.proposals
    /\ states' = st.states
    /\ pending_proposals' = st.pending_proposals
    /\ escrow_table' = st.escrow_table
    /\ locked_table' = st.locked_table
    /\ deal_ops_by_epoch' = st.deal_ops_by_epoch
    /\ next_id' = st.next_id
    /\ last_cron' = st.last_cron

MCall(op) == [op |-> op, to |-> NoAddr, method |-> "-", value |-> 0, addr |-> NoAddr, size |-> 0]
MSend(a, method, v) ==
    [op |-> "send", to |-> a, method |-> method, value |-> v, addr |-> NoAddr, size |-> 0]
UseBytes(client, size) ==
    [op |-> "send", to |-> VerifregActor, method |-> "UseBytes", value |-> 0,
     addr |-> client, size |-> size]

NoParams == [addr |-> NoAddr, amount |-> 0, deals |-> <<>>, deal_ids |-> <<>>,
             sector_expiry |-> 0, sector_start |-> 0, epoch |-> 0]
NoReturn == [ids |-> <<>>, deal_weight |-> 0, verified_deal_weight |-> 0]
MNoCall == [method |-> "none", num |-> 0, code |-> Ok, caller |-> NoAddr,
            params |-> NoParams,
            trace |-> <<>>, pre |-> EmptyMarketState, epoch |-> 0, ret |-> NoReturn]

MRecord(method, code, caller, params, trace, ret) ==
    mlast' = [method |-> method, num |-> MarketMethodNum(method), code |-> code,
              caller |-> caller, params |-> params,
              trace |-> trace, pre |-> MarketState, epoch |-> m_epoch, ret |-> ret]

MarketSame == UNCHANGED <<m_created, proposals, states, pending_proposals, escrow_table,
                          locked_table, deal_ops_by_epoch, next_id, last_cron, m_epoch>>

\* a map (AMT, HAMT) as a function: set and get
MapSet(f, k, v) == [x \in (DOMAIN f) \cup {k} |-> IF x = k THEN v ELSE f[x]]
MapHas(f, k) == k \in DOMAIN f

(***************************************************************************)
(* Deal policy.  market/policy.rs is not among the sources and the text    *)
(* gives no numbers; the model takes small bounds, the provider's and the  *)
(* client's collateral bounds being different intervals.                   *)
(***************************************************************************)
deal_duration_bounds(size) == [min |-> 1, max |-> 2]
deal_price_per_epoch_bounds(size, duration) == [min |-> 0, max |-> 1]
deal_provider_collateral_bounds(size, verified) == [min |-> 1, max |-> 2]
deal_client_collateral_bounds(size, duration) == [min |-> 0, max |-> 1]
piece_size_valid(size) == size >= 1
PIECE_CID_PREFIX == "piece"

duration(p) == p.end_epoch - p.start_epoch
total_storage_fee(p) == p.storage_price_per_epoch * duration(p)
client_balance_requirement(p) == p.client_collateral + total_storage_fee(p)
provider_balance_requirement(p) == p.provider_collateral
deal_weight(p) == duration(p) * p.piece_size

(***************************************************************************)
(* validate_deal and deal_proposal_is_internally_valid: the exit code and  *)
(* the check that failed.                                                  *)
(***************************************************************************)
deal_proposal_is_internally_valid(deal) ==
    IF deal.proposal.end_epoch <= deal.proposal.start_epoch THEN "end before start"
    ELSE IF deal.client_signature # "good" THEN "signature"
    ELSE "ok"

validate_deal(deal, epoch) ==
    LET p == deal.proposal
        dur == deal_duration_bounds(p.piece_size)
        price == deal_price_per_epoch_bounds(p.piece_size, duration(p))
        pc == deal_provider_collateral_bounds(p.piece_size, p.verified_deal)
        cc == deal_client_collateral_bounds(p.piece_size, duration(p))
    IN IF deal_proposal_is_internally_valid(deal) # "ok"
       THEN deal_proposal_is_internally_valid(deal)
       ELSE IF ~piece_size_valid(p.piece_size) THEN "piece size"
       ELSE IF p.piece_cid # PIECE_CID_PREFIX THEN "piece cid"
       ELSE IF p.end_epoch <= p.start_epoch THEN "end before start"
       ELSE IF epoch > p.start_epoch THEN "start elapsed"
       ELSE IF duration(p) < dur.min \/ duration(p) > dur.max THEN "duration"
       ELSE IF p.storage_price_per_epoch < price.min \/ p.storage_price_per_epoch > price.max
       THEN "price"
       ELSE IF p.provider_collateral < pc.min \/ p.provider_collateral > pc.max
       THEN "provider collateral"
       ELSE IF p.provider_collateral < cc.min \/ p.provider_collateral > cc.max
       THEN "client collateral"
       ELSE "ok"

(***************************************************************************)
(* The balance tables (market/state.rs and the BalanceTable are not among  *)
(* the sources): locking a party's funds, and the withdrawal that leaves   *)
(* at least the locked minimum.                                            *)
(***************************************************************************)
LockWithoutCheck(st, addr, amount) ==
    [code |-> Ok, st |-> [st EXCEPT !.locked_table[addr] = st.locked_table[addr] + amount]]

maybe_lock_balance(st, addr, amount) ==
    IF st.escrow_table[addr] - st.locked_table[addr] < amount
    THEN [code |-> ErrInsufficientFunds, st |-> st]
    ELSE [code |-> Ok,
          st |-> [st EXCEPT !.locked_table[addr] = st.locked_table[addr] + amount]]

LockClientOnly(st, p) == maybe_lock_balance(st, p.client, client_balance_requirement(p))

lock_client_and_provider_balances(st, p) ==
    LET c == maybe_lock_balance(st, p.client, client_balance_requirement(p))
    IN IF c.code # Ok THEN c
       ELSE maybe_lock_balance(c.st, p.provider, provider_balance_requirement(p))

\* the next deal id, and the state with the counter advanced
DealIdNotAdvanced(st) == [id |-> st.next_id, st |-> st]

generate_storage_deal_id(st) ==
    [id |-> st.next_id, st |-> [st EXCEPT !.next_id = st.next_id + 1]]

Min(a, b) == IF a <= b THEN a ELSE b

SubtractIgnoresFloor(bal, req, floor) == Min(bal, req)

subtract_with_minimum(bal, req, floor) ==
    LET available == IF bal - floor > 0 THEN bal - floor ELSE 0
    IN Min(available, req)

(***************************************************************************)
(* The inputs of the market methods.                                       *)
(***************************************************************************)
BaseProposal ==
    [piece_cid |-> PIECE_CID_PREFIX, piece_size |-> 1, verified_deal |-> FALSE,
     client |-> Client, provider |-> MinerM, start_epoch |-> 1, end_epoch |-> 2,
     storage_price_per_epoch |-> 0, provider_collateral |-> 1, client_collateral |-> 0]

Signed(p) == [proposal |-> p, client_signature |-> "good"]

\* deals that differ from the base deal in one field (two for the key-address
\* client, which is a verified deal)
GoodDeals ==
    {Signed(BaseProposal),
     Signed([BaseProposal EXCEPT !.verified_deal = TRUE]),
     Signed([BaseProposal EXCEPT !.verified_deal = TRUE, !.client = ClientKey]),
     Signed([BaseProposal EXCEPT !.start_epoch = 0, !.end_epoch = 1]),
     Signed([BaseProposal EXCEPT !.client_collateral = 1])}

OtherDeals ==
    {[proposal |-> BaseProposal, client_signature |-> "bad"],
     Signed([BaseProposal EXCEPT !.end_epoch = 1]),
     Signed([BaseProposal EXCEPT !.piece_size = 0]),
     Signed([BaseProposal EXCEPT !.piece_cid = "other"]),
     Signed([BaseProposal EXCEPT !.start_epoch = 0, !.end_epoch = 3]),
     Signed([BaseProposal EXCEPT !.storage_price_per_epoch = 2]),
     Signed([BaseProposal EXCEPT !.provider_collateral = 0]),
     Signed([BaseProposal EXCEPT !.provider_collateral = 2]),
     Signed([BaseProposal EXCEPT !.client_collateral = 2]),
     Signed([BaseProposal EXCEPT !.provider = MinerN]),
     Signed([BaseProposal EXCEPT !.provider = Unknown]),
     Signed([BaseProposal EXCEPT !.provider = Client]),
     Signed([BaseProposal EXCEPT !.client = Unknown])}

DealBatches ==
    {<<>>} \cup {<<d>> : d \in GoodDeals \cup OtherDeals}
           \cup {<<d, e>> : d \in GoodDeals, e \in GoodDeals}
           \cup {<<Signed(BaseProposal), e>> : e \in OtherDeals}

DealIds == 0..MaxDeals
DealIdLists == {<<>>} \cup {<<d>> : d \in DealIds}
                      \cup {<<d, e>> : d \in {0}, e \in DealIds} \cup {<<1, 0>>}

(***************************************************************************)
(* Method 1, Constructor.                                                  *)
(***************************************************************************)
market_constructor ==
    /\ mlast = MNoCall
    /\ UNCHANGED <<paychVars, libVars>>
    /\ \E caller \in {SystemActor, Worker} :
        LET t1 == <<MCall("validate_immediate_caller_is")>>
            code == IF validate_immediate_caller(caller, {SystemActor}) # Ok
                    THEN SysErrForbidden
                    ELSE IF m_created THEN SysErrorIllegalActor ELSE Ok
        IN /\ MRecord("Constructor", code, caller, NoParams,
                      IF code = SysErrForbidden THEN t1 ELSE t1 \o <<MCall("create")>>,
                      NoReturn)
           /\ IF code = Ok
              THEN /\ m_created' = TRUE
                   /\ SetMarketState(EmptyMarketState)
                   /\ UNCHANGED m_epoch
              ELSE MarketSame

(***************************************************************************)
(* escrow_address: the nominal holder, the recipient of withdrawals, the   *)
(* callers approved for it, and the runtime calls made.                    *)
(***************************************************************************)
escrow_address(addr) ==
    LET nominal == resolve_address(addr)
        ctl == request_miner_control_addrs(nominal)
        bad == [code |-> ErrIllegalArgument, nominal |-> NoAddr, recipient |-> NoAddr,
                approved |-> {}, trace |-> <<>>]
    IN IF nominal = NoAddr THEN bad
       ELSE IF CodeOf(nominal) = "none" THEN bad
       ELSE IF CodeOf(nominal) = "miner"
       THEN [code |-> Ok, nominal |-> nominal, recipient |-> ctl.owner,
             approved |-> {ctl.owner, ctl.worker},
             trace |-> <<MSend(nominal, "ControlAddresses", 0)>>]
       ELSE [code |-> Ok, nominal |-> nominal, recipient |-> nominal,
             approved |-> {nominal}, trace |-> <<>>]

(***************************************************************************)
(* Method 2, AddBalance.  The transaction adds the value received to the   *)
(* nominal holder's escrow entry.                                          *)
(***************************************************************************)
AddBalanceOverwrites(st, nominal, msg_value) ==
    [code |-> Ok, st |-> [st EXCEPT !.escrow_table[nominal] = msg_value]]

add_balance_closure(st, nominal, msg_value) ==
    [code |-> Ok,
     st |-> [st EXCEPT !.escrow_table[nominal] = st.escrow_table[nominal] + msg_value]]

add_balance ==
    /\ m_created /\ mlast = MNoCall
    /\ UNCHANGED <<paychVars, libVars>>
    /\ \E caller \in {Client, Owner, MinerM}, addr \in {Client, ClientKey, MinerM, Unknown},
          msg_value \in 0..1 :
        LET params == [NoParams EXCEPT !.addr = addr, !.amount = msg_value]
            t1 == <<MCall("validate_immediate_caller_type")>>
            ea == escrow_address(addr)
            t2 == t1 \o ea.trace
            st == MarketState
            r == add_balance_closure(st, ea.nominal, msg_value)
        IN IF msg_value <= 0
           THEN MRecord("AddBalance", ErrIllegalArgument, caller, params, <<>>, NoReturn)
                /\ MarketSame
           ELSE IF validate_immediate_caller(CodeOf(caller), CALLER_TYPES_SIGNABLE) # Ok
           THEN MRecord("AddBalance", SysErrForbidden, caller, params, t1, NoReturn)
                /\ MarketSame
           ELSE IF ea.code # Ok
           THEN MRecord("AddBalance", ea.code, caller, params, t2, NoReturn) /\ MarketSame
           ELSE /\ escrow_table[ea.nominal] + msg_value <= MaxEscrow
                /\ MRecord("AddBalance", Ok, caller, params,
                           t2 \o <<MCall("transaction")>>, NoReturn)
                /\ SetMarketState(transaction(st, r))
                /\ UNCHANGED <<m_created, m_epoch>>

(***************************************************************************)
(* Method 3, WithdrawBalance.  `fails`: the send to the recipient fails;   *)
(* the executor then keeps or undoes the committed transaction.            *)
(***************************************************************************)
withdraw_balance ==
    /\ m_created /\ mlast = MNoCall
    /\ UNCHANGED <<paychVars, libVars>>
    /\ \E caller \in {Client, Owner, Worker, MinerM},
          addr \in {Client, ClientKey, MinerM, Unknown},
          amount \in {-1, 1, 2}, fails \in BOOLEAN, undone \in BOOLEAN :
        LET params == [NoParams EXCEPT !.addr = addr, !.amount = amount]
            t1 == <<MCall("validate_immediate_caller_type")>>
            ea == escrow_address(addr)
            t2 == t1 \o ea.trace \o <<MCall("validate_immediate_caller_is")>>
            st == MarketState
            min_balance == st.locked_table[ea.nominal]
            ex == subtract_with_minimum(st.escrow_table[ea.nominal], amount, min_balance)
            r == [code |-> Ok,
                  st |-> [st EXCEPT !.escrow_table[ea.nominal] =
                                        st.escrow_table[ea.nominal] - ex]]
            t3 == t2 \o <<MCall("transaction"), MSend(ea.recipient, "Send", ex)>>
        IN IF amount < 0
           THEN MRecord("WithdrawBalance", ErrIllegalArgument, caller, params, <<>>, NoReturn)
                /\ MarketSame
           ELSE IF validate_immediate_caller(CodeOf(caller), CALLER_TYPES_SIGNABLE) # Ok
           THEN MRecord("WithdrawBalance", SysErrForbidden, caller, params, t1, NoReturn)
                /\ MarketSame
           ELSE IF ea.code # Ok
           THEN MRecord("WithdrawBalance", ea.code, caller, params, t1 \o ea.trace, NoReturn)
                /\ MarketSame
           ELSE IF validate_immediate_caller(caller, ea.approved) # Ok
           THEN MRecord("WithdrawBalance", SysErrForbidden, caller, params, t2, NoReturn)
                /\ MarketSame
           ELSE /\ MRecord("WithdrawBalance", IF fails THEN SendFailed ELSE Ok, caller,
                           params, t3, NoReturn)
                /\ SetMarketState(IF fails /\ undone THEN st ELSE transaction(st, r))
                /\ UNCHANGED <<m_created, m_epoch>>

(***************************************************************************)
(* Method 4, PublishStorageDeals.  The loop over params.deals inside the   *)
(* transaction: the exit code, the state as mutated so far, the new deal   *)
(* ids, the resolved_addrs map and the deals as normalised in place.       *)
(***************************************************************************)
\* the proposal's CID is a key of the pending proposals
HasPendingNever(st, p) == FALSE

has_pending(st, p) == p \in st.pending_proposals

RECURSIVE publish_loop(_, _, _, _, _, _, _, _, _)
publish_loop(st, deals, i, ids, resolved_addrs, out, provider, provider_raw, epoch) ==
    IF i > Len(deals)
    THEN [code |-> Ok, st |-> st, ids |-> ids, resolved_addrs |-> resolved_addrs,
          deals |-> out]
    ELSE LET deal == deals[i]
             client == resolve_address(deal.proposal.client)
             p == [deal.proposal EXCEPT !.provider = provider, !.client = client]
             lk == lock_client_and_provider_balances(st, p)
             g == generate_storage_deal_id(lk.st)
             id == g.id
             s1 == g.st
             s2 == [s1 EXCEPT !.pending_proposals = s1.pending_proposals \cup {p},
                              !.proposals = MapSet(s1.proposals, id, p),
                              !.deal_ops_by_epoch =
                                   s1.deal_ops_by_epoch \cup {<<p.start_epoch, id>>}]
             err(code, s) == [code |-> code, st |-> s, ids |-> ids,
                              resolved_addrs |-> resolved_addrs, deals |-> out]
         IN IF validate_deal(deal, epoch) # "ok" THEN err(ErrIllegalArgument, st)
            ELSE IF deal.proposal.provider # provider /\ deal.proposal.provider # provider_raw
            THEN err(ErrIllegalArgument, st)
            ELSE IF client = NoAddr THEN err(ErrNotFound, st)
            ELSE IF lk.code # Ok THEN err(lk.code, lk.st)
            ELSE IF has_pending(s1, p) THEN err(ErrIllegalArgument, s1)
            ELSE publish_loop(s2, deals, i + 1, Append(ids, id),
                              MapSet(resolved_addrs, deal.proposal.client, client),
                              Append(out, [deal EXCEPT !.proposal = p]),
                              provider, provider_raw, epoch)

\* the loop over the normalised deals after the transaction: the UseBytes
\* sends, `fails` being the index of the send that fails (0: none)
RECURSIVE use_bytes_loop(_, _, _, _, _)
use_bytes_loop(deals, i, resolved_addrs, fails, trace) ==
    IF i > Len(deals) THEN [code |-> Ok, trace |-> trace]
    ELSE LET p == deals[i].proposal
         IN IF ~p.verified_deal
            THEN use_bytes_loop(deals, i + 1, resolved_addrs, fails, trace)
            ELSE IF ~MapHas(resolved_addrs, p.client)
            THEN [code |-> ErrIllegalArgument, trace |-> trace]
            ELSE LET t == Append(trace, UseBytes(resolved_addrs[p.client], p.piece_size))
                 IN IF fails = i THEN [code |-> SendFailed, trace |-> t]
                    ELSE use_bytes_loop(deals, i + 1, resolved_addrs, fails, t)

publish_storage_deals ==
    /\ m_created /\ mlast = MNoCall
    /\ UNCHANGED <<paychVars, libVars>>
    /\ \E caller \in {Worker, Owner, MinerM}, deals \in DealBatches,
          fails \in 0..1, undone \in BOOLEAN :
        LET params == [NoParams EXCEPT !.deals = deals]
            t1 == <<MCall("validate_immediate_caller_type")>>
            provider_raw == deals[1].proposal.provider
            provider == resolve_address(provider_raw)
            t2 == t1 \o <<MSend(provider, "ControlAddresses", 0)>>
            worker == request_miner_control_addrs(provider).worker
            t3 == t2 \o <<MSend(RewardActor, "ThisEpochReward", 0),
                          MSend(PowerActor, "CurrentTotalPower", 0),
                          MCall("transaction")>>
            st == MarketState
            r == publish_loop(st, deals, 1, <<>>, <<>>, <<>>, provider, provider_raw, m_epoch)
            u == use_bytes_loop(r.deals, 1, r.resolved_addrs, fails, t3)
            quit(code, trace) ==
                MRecord("PublishStorageDeals", code, caller, params, trace, NoReturn)
                /\ MarketSame
        IN IF validate_immediate_caller(CodeOf(caller), CALLER_TYPES_SIGNABLE) # Ok
           THEN quit(SysErrForbidden, t1)
           ELSE IF deals = <<>> THEN quit(ErrIllegalArgument, t1)
           ELSE IF provider = NoAddr THEN quit(ErrNotFound, t1)
           ELSE IF CodeOf(provider) = "none" THEN quit(ErrIllegalArgument, t1)
           ELSE IF CodeOf(provider) # "miner" THEN quit(ErrIllegalArgument, t1)
           ELSE IF worker # caller THEN quit(ErrForbidden, t2)
           ELSE IF r.code # Ok THEN quit(r.code, t3)
           ELSE /\ next_id + Len(deals) <= MaxDeals
                /\ MRecord("PublishStorageDeals", u.code, caller, params, u.trace,
                           IF u.code = Ok THEN [NoReturn EXCEPT !.ids = r.ids] ELSE NoReturn)
                /\ SetMarketState(IF u.code # Ok /\ undone THEN st ELSE transaction(st, r))
                /\ UNCHANGED <<m_created, m_epoch>>

(***************************************************************************)
(* validate_deals_for_activation and validate_deal_can_activate.  An error *)
(* of validate_deal_can_activate is turned into a string on the way out,   *)
(* so the callers' downcast fails and they report ErrIllegalState.         *)
(***************************************************************************)
validate_deal_can_activate(proposal, miner_addr, sector_expiration, epoch) ==
    IF proposal.provider # miner_addr THEN ErrForbidden
    ELSE IF epoch > proposal.start_epoch THEN ErrIllegalArgument
    ELSE IF proposal.end_epoch > sector_expiration THEN ErrIllegalArgument
    ELSE Ok

RECURSIVE validate_deals_for_activation(_, _, _, _, _, _, _, _)
validate_deals_for_activation(st, deal_ids, i, miner_addr, sector_expiry, epoch, w, vw) ==
    IF i > Len(deal_ids) THEN [code |-> Ok, deal_weight |-> w, verified_deal_weight |-> vw]
    ELSE LET id == deal_ids[i]
             bad(code) == [code |-> code, deal_weight |-> 0, verified_deal_weight |-> 0]
         IN IF ~MapHas(st.proposals, id) THEN bad(ErrNotFound)
            ELSE IF validate_deal_can_activate(st.proposals[id], miner_addr,
                                               sector_expiry, epoch) # Ok
            THEN bad(ErrIllegalState)
            ELSE IF st.proposals[id].verified_deal
            THEN validate_deals_for_activation(st, deal_ids, i + 1, miner_addr, sector_expiry,
                                               epoch, w, vw + deal_weight(st.proposals[id]))
            ELSE validate_deals_for_activation(st, deal_ids, i + 1, miner_addr, sector_expiry,
                                               epoch, w + deal_weight(st.proposals[id]), vw)

(***************************************************************************)
(* Method 5, VerifyDealsForActivation.                                     *)
(***************************************************************************)
verify_deals_for_activation ==
    /\ m_created /\ mlast = MNoCall
    /\ UNCHANGED <<paychVars, libVars>>
    /\ \E caller \in {MinerM, MinerN, Worker}, deal_ids \in DealIdLists,
          sector_expiry \in 1..2, sector_start \in 0..MaxMarketEpoch :
        LET params == [NoParams EXCEPT !.deal_ids = deal_ids,
                                       !.sector_expiry = sector_expiry,
                                       !.sector_start = sector_start]
            t1 == <<MCall("validate_immediate_caller_type")>>
            r == validate_deals_for_activation(MarketState, deal_ids, 1, caller,
                                               sector_expiry, sector_start, 0, 0)
        IN /\ MarketSame
           /\ IF validate_immediate_caller(CodeOf(caller), {"miner"}) # Ok
              THEN MRecord("VerifyDealsForActivation", SysErrForbidden, caller, params, t1,
                           NoReturn)
              ELSE MRecord("VerifyDealsForActivation", r.code, caller, params,
                           t1 \o <<MCall("state")>>,
                           [NoReturn EXCEPT !.deal_weight = r.deal_weight,
                                            !.verified_deal_weight = r.verified_deal_weight])

(***************************************************************************)
(* Method 6, ActivateDeals.                                                *)
(***************************************************************************)
ActivateUnchecked(st, deal_ids, i, epoch) ==
    [code |-> Ok,
     st |-> [st EXCEPT !.states =
                [x \in (DOMAIN st.states) \cup {deal_ids[k] : k \in 1..Len(deal_ids)} |->
                    IF \E k \in 1..Len(deal_ids) : deal_ids[k] = x
                    THEN [sector_start_epoch |-> epoch,
                          last_updated_epoch |-> EPOCH_UNDEFINED,
                          slash_epoch |-> EPOCH_UNDEFINED]
                    ELSE st.states[x]]]]

RECURSIVE activate_loop(_, _, _, _)
activate_loop(st, deal_ids, i, epoch) ==
    IF i > Len(deal_ids) THEN [code |-> Ok, st |-> st]
    ELSE LET id == deal_ids[i]
         IN IF MapHas(st.states, id) THEN [code |-> ErrIllegalArgument, st |-> st]
            ELSE IF ~MapHas(st.proposals, id) THEN [code |-> ErrNotFound, st |-> st]
            ELSE IF st.proposals[id] \notin st.pending_proposals
            THEN [code |-> ErrIllegalState, st |-> st]
            ELSE activate_loop(
                     [st EXCEPT !.states = MapSet(st.states, id,
                                    [sector_start_epoch |-> epoch,
                                     last_updated_epoch |-> EPOCH_UNDEFINED,
                                     slash_epoch |-> EPOCH_UNDEFINED])],
                     deal_ids, i + 1, epoch)

activate_closure(st, deal_ids, miner_addr, sector_expiry, epoch) ==
    LET v == validate_deals_for_activation(st, deal_ids, 1, miner_addr, sector_expiry,
                                           epoch, 0, 0)
    IN IF v.code # Ok THEN [code |-> v.code, st |-> st]
       ELSE activate_loop(st, deal_ids, 1, epoch)

activate_deals ==
    /\ m_created /\ mlast = MNoCall
    /\ UNCHANGED <<paychVars, libVars>>
    /\ \E caller \in {MinerM, MinerN, Worker}, deal_ids \in DealIdLists,
          sector_expiry \in 1..2 :
        LET params == [NoParams EXCEPT !.deal_ids = deal_ids,
                                       !.sector_expiry = sector_expiry]
            t1 == <<MCall("validate_immediate_caller_type")>>
            r == activate_closure(MarketState, deal_ids, caller, sector_expiry, m_epoch)
        IN IF validate_immediate_caller(CodeOf(caller), {"miner"}) # Ok
           THEN MRecord("ActivateDeals", SysErrForbidden, caller, params, t1, NoReturn)
                /\ MarketSame
           ELSE /\ MRecord("ActivateDeals", r.code, caller, params,
                           t1 \o <<MCall("curr_epoch"), MCall("transaction")>>, NoReturn)
                /\ SetMarketState(transaction(MarketState, r))
                /\ UNCHANGED <<m_created, m_epoch>>

(***************************************************************************)
(* Method 7, OnMinerSectorsTerminate.  assert_eq! on the provider panics.  *)
(***************************************************************************)
Panic == "Panic"

TerminateReslashes(st, deal_ids, i, miner_addr, epoch) ==
    [code |-> Ok,
     st |-> [st EXCEPT !.states =
                [x \in DOMAIN st.states |->
                    IF \E k \in 1..Len(deal_ids) : deal_ids[k] = x
                    THEN [st.states[x] EXCEPT !.slash_epoch = epoch]
                    ELSE st.states[x]]]]

RECURSIVE terminate_loop(_, _, _, _, _)
terminate_loop(st, deal_ids, i, miner_addr, epoch) ==
    IF i > Len(deal_ids) THEN [code |-> Ok, st |-> st]
    ELSE LET id == deal_ids[i]
             next(s) == terminate_loop(s, deal_ids, i + 1, miner_addr, epoch)
         IN IF ~MapHas(st.proposals, id) THEN next(st)
            ELSE IF st.proposals[id].provider # miner_addr THEN [code |-> Panic, st |-> st]
            ELSE IF st.proposals[id].end_epoch <= epoch THEN next(st)
            ELSE IF ~MapHas(st.states, id) THEN [code |-> ErrIllegalArgument, st |-> st]
            ELSE IF st.states[id].slash_epoch # EPOCH_UNDEFINED THEN next(st)
            ELSE next([st EXCEPT !.states[id].slash_epoch = epoch])

on_miners_sector_terminate ==
    /\ m_created /\ mlast = MNoCall
    /\ UNCHANGED <<paychVars, libVars>>
    /\ \E caller \in {MinerM, MinerN, Worker}, deal_ids \in DealIdLists,
          epoch \in 0..(MaxMarketEpoch + 1) :
        LET params == [NoParams EXCEPT !.deal_ids = deal_ids, !.epoch = epoch]
            t1 == <<MCall("validate_immediate_caller_type")>>
            r == terminate_loop(MarketState, deal_ids, 1, caller, epoch)
        IN IF validate_immediate_caller(CodeOf(caller), {"miner"}) # Ok
           THEN MRecord("OnMinerSectorsTerminate", SysErrForbidden, caller, params, t1,
                        NoReturn)
                /\ MarketSame
           ELSE /\ MRecord("OnMinerSectorsTerminate", r.code, caller, params,
                           t1 \o <<MCall("transaction")>>, NoReturn)
                /\ SetMarketState(transaction(MarketState, r))
                /\ UNCHANGED <<m_created, m_epoch>>

(***************************************************************************)
(* Method 8, ComputeDataCommitment: todo!() follows the caller check.      *)
(***************************************************************************)
compute_data_commitment ==
    /\ m_created /\ mlast = MNoCall
    /\ UNCHANGED <<paychVars, libVars>>
    /\ MarketSame
    /\ \E caller \in {MinerM, Worker}, deal_ids \in {<<>>, <<0>>} :
        MRecord("ComputeDataCommitment",
                IF validate_immediate_caller(CodeOf(caller), {"miner"}) # Ok
                THEN SysErrForbidden ELSE Panic,
                caller, [NoParams EXCEPT !.deal_ids = deal_ids],
                <<MCall("validate_immediate_caller_type")>>, NoReturn)

(***************************************************************************)
(* Method 9, CronTick: the sweep over the epochs is commented out in the   *)
(* source; what runs is the caller check and the send of amount_slashed,   *)
(* which is zero, to the burnt-funds actor.                                *)
(***************************************************************************)
cron_tick ==
    /\ m_created /\ mlast = MNoCall
    /\ UNCHANGED <<paychVars, libVars>>
    /\ MarketSame
    /\ \E caller \in {CronActor, Worker}, fails \in BOOLEAN :
        LET t1 == <<MCall("validate_immediate_caller_is")>>
            amount_slashed == 0
        IN IF validate_immediate_caller(caller, {CronActor}) # Ok
           THEN MRecord("CronTick", SysErrForbidden, caller, NoParams, t1, NoReturn)
           ELSE MRecord("CronTick", IF fails THEN SendFailed ELSE Ok, caller, NoParams,
                        t1 \o <<MSend(BurntFunds, "Send", amount_slashed)>>, NoReturn)

(***************************************************************************)
(* The executor takes the receipt; the chain advances.                     *)
(***************************************************************************)
(***************************************************************************)
(* invoke_method with a number that is no method.                          *)
(***************************************************************************)
market_invoke_default(method) == [code |-> SysErrInvalidMethod, trace |-> <<>>]

market_invalid_method ==
    /\ mlast = MNoCall
    /\ UNCHANGED <<paychVars, libVars>>
    /\ MarketSame
    /\ \E method \in MethodNums :
        /\ market_from_u64(method) = "None"
        /\ mlast' = [method |-> "None", num |-> method,
                     code |-> market_invoke_default(method).code, caller |-> Worker,
                     params |-> NoParams, trace |-> market_invoke_default(method).trace,
                     pre |-> MarketState, epoch |-> m_epoch, ret |-> NoReturn]

MarketReturn ==
    /\ mlast # MNoCall
    /\ mlast' = MNoCall
    /\ MarketSame
    /\ UNCHANGED <<paychVars, libVars>>

MarketTick ==
    /\ mlast = MNoCall /\ m_epoch < MaxMarketEpoch
    /\ m_epoch' = m_epoch + 1
    /\ UNCHANGED <<m_created, proposals, states, pending_proposals, escrow_table,
                   locked_table, deal_ops_by_epoch, next_id, last_cron, mlast>>
    /\ UNCHANGED <<paychVars, libVars>>

(***************************************************************************)
(* The specifications: each actor under the messages it can receive.       *)
(***************************************************************************)
(***************************************************************************)
(* The gas tracker and the syscall wrapper (vm/interpreter).               *)
(* gas_tracker.rs is not among the sources: charge_gas fails with          *)
(* SysErrOutOfGas when the sum would exceed the limit, and the text does   *)
(* not say what gas_used is after a failed charge: it stays, or it is set  *)
(* to the limit.  The prices follow the price list of the test.            *)
(***************************************************************************)
SysErrOutOfGas == "SysErrOutOfGas"
BackendError == "BackendError"

charge_gas(used, limit, amount) ==
    IF used + amount > limit
    THEN [code |-> SysErrOutOfGas, used |-> {used, limit}]
    ELSE [code |-> Ok, used |-> {used + amount}]

hashing_base == 1
hashing_per_byte == 1
compute_unsealed_sector_cid_base == 1
verify_seal_base == 1
verify_post_base == 1
verify_consensus_fault_price == 1
verify_signature_base == 4
verify_signature_per_byte == 1

on_verify_signature(len) == verify_signature_base + len * verify_signature_per_byte
on_hashing(len) == hashing_base + len * hashing_per_byte
on_compute_unsealed_sector_cid(pieces) == compute_unsealed_sector_cid_base
on_verify_seal == verify_seal_base
on_verify_post == verify_post_base
on_verify_consensus_fault == verify_consensus_fault_price

GNoCall == [call |-> "none", amount |-> 0, code |-> Ok, trace |-> <<>>, pre |-> 0]

\* a metered syscall of the wrapper: the charge, then the backend, whose
\* result is `backend`; the possible values of gas_used and the calls made
DelegatesBeforeCharge(used, limit, amount, backend) ==
    [code |-> IF charge_gas(used, limit, amount).code # Ok
              THEN charge_gas(used, limit, amount).code ELSE backend,
     used |-> charge_gas(used, limit, amount).used,
     trace |-> <<"backend", "charge_gas">>]

gas_syscall(used, limit, amount, backend) ==
    LET c == charge_gas(used, limit, amount)
    IN IF c.code # Ok
       THEN [code |-> c.code, used |-> c.used, trace |-> <<"charge_gas">>]
       ELSE [code |-> backend, used |-> c.used, trace |-> <<"charge_gas", "backend">>]

Metered(call, amount) ==
    /\ glast = GNoCall
    /\ UNCHANGED <<paychVars, marketVars, addrVars, utilVars, gas_limit, gas_start>>
    /\ \E backend \in {Ok, BackendError} :
        LET r == gas_syscall(gas_used, gas_limit, amount, backend)
            charged == r.code # SysErrOutOfGas
        IN /\ \E u \in r.used : gas_used' = u
           /\ glast' = [call |-> call, amount |-> amount, code |-> r.code,
                        trace |-> r.trace, pre |-> gas_used]
           /\ gas_charged' = IF charged THEN gas_charged + amount ELSE gas_charged
           /\ gas_failed' = (gas_failed \/ ~charged)

verify_signature == \E len \in 0..MaxDataLen : Metered("verify_signature", on_verify_signature(len))
hash_blake2b == \E len \in 0..MaxDataLen : Metered("hash_blake2b", on_hashing(len))
compute_unsealed_sector_cid ==
    \E pieces \in 0..1 :
        Metered("compute_unsealed_sector_cid", on_compute_unsealed_sector_cid(pieces))
verify_seal == Metered("verify_seal", on_verify_seal)
verify_post == Metered("verify_post", on_verify_post)
verify_consensus_fault == Metered("verify_consensus_fault", on_verify_consensus_fault)

BatchVerifySealsMetered == Metered("batch_verify_seals", verify_seal_base)

\* not metered: the backend is called and nothing is charged
batch_verify_seals ==
    /\ glast = GNoCall
    /\ UNCHANGED <<paychVars, marketVars, addrVars, utilVars, gas_limit, gas_start, gas_used, gas_charged,
                   gas_failed>>
    /\ \E backend \in {Ok, BackendError} :
        glast' = [call |-> "batch_verify_seals", amount |-> 0, code |-> backend,
                  trace |-> <<"backend">>, pre |-> gas_used]

\* GasTracker::new(gas_available, gas_used) for the next message
gas_tracker_new ==
    /\ glast = GNoCall
    /\ UNCHANGED <<paychVars, marketVars, addrVars, utilVars, glast>>
    /\ \E limit \in {MaxGas - 1, MaxGas}, used \in 0..1 :
        /\ <<limit, used>> # <<gas_limit, gas_start>> \/ gas_used # gas_start
        /\ gas_limit' = limit
        /\ gas_start' = used
        /\ gas_used' = used
    /\ gas_charged' = 0
    /\ gas_failed' = FALSE

GasReturn ==
    /\ glast # GNoCall
    /\ glast' = GNoCall
    /\ UNCHANGED <<paychVars, marketVars, addrVars, utilVars, gas_limit, gas_start, gas_used, gas_charged,
                   gas_failed>>

(***************************************************************************)
(* Addresses (vm/address).  An Address is a network and a payload; a       *)
(* payload is a protocol with an id (ID) or with raw bytes (the others).   *)
(* payload.rs, protocol.rs and network.rs are not among the sources: the   *)
(* payload is built and encoded as the text describes the binary form, one *)
(* protocol byte followed by the payload, LEB128 for ID, 20 bytes for      *)
(* Secp256k1 and Actor, 48 for BLS.                                        *)
(***************************************************************************)
BLS_PUB_LEN == 48
PAYLOAD_HASH_LEN == 20
CHECKSUM_HASH_LEN == 4
NETWORK_DEFAULT == "Testnet"
Networks == {"Mainnet", "Testnet"}
Protocols == {"ID", "Secp256k1", "Actor", "BLS"}

Protocol_from_byte(b) ==
    CASE b = 0 -> "ID"
      [] b = 1 -> "Secp256k1"
      [] b = 2 -> "Actor"
      [] b = 3 -> "BLS"
      [] OTHER -> "None"

Protocol_as_byte(p) == CHOOSE b \in 0..3 : Protocol_from_byte(b) = p

\* leb128::write::unsigned: seven bits a byte, low group first, the high bit
\* set on every byte but the last
RECURSIVE to_leb_bytes(_)
to_leb_bytes(id) ==
    IF id < 128 THEN <<id>> ELSE <<128 + (id % 128)>> \o to_leb_bytes(id \div 128)

\* leb128::read::unsigned: reads up to the first byte without the high bit
\* and leaves the rest of the input unread; the input ending before that is
\* an error.  (Overflow needs ten bytes, beyond the inputs used here.)
RECURSIVE leb_read(_, _, _, _)
leb_read(bz, i, shift, result) ==
    IF i > Len(bz) THEN [err |-> "InvalidPayload", id |-> 0]
    ELSE LET r == result + (bz[i] % 128) * (2 ^ shift)
         IN IF bz[i] < 128 THEN [err |-> Ok, id |-> r]
            ELSE leb_read(bz, i + 1, shift + 7, r)

from_leb_bytes(bz) == leb_read(bz, 1, 0, 0)

PayloadID(id) == [protocol |-> "ID", id |-> id, data |-> <<>>]
PayloadRaw(protocol, bz) == [protocol |-> protocol, id |-> 0, data |-> bz]
NoPayload == [protocol |-> "None", id |-> 0, data |-> <<>>]

\* Payload::new(protocol, bz)
Payload_new(protocol, bz) ==
    CASE protocol = "ID" ->
            LET r == from_leb_bytes(bz)
            IN [err |-> r.err, payload |-> IF r.err = Ok THEN PayloadID(r.id) ELSE NoPayload]
      [] protocol \in {"Secp256k1", "Actor"} ->
            IF Len(bz) = PAYLOAD_HASH_LEN
            THEN [err |-> Ok, payload |-> PayloadRaw(protocol, bz)]
            ELSE [err |-> "InvalidPayload", payload |-> NoPayload]
      [] OTHER ->
            IF Len(bz) = BLS_PUB_LEN
            THEN [err |-> Ok, payload |-> PayloadRaw(protocol, bz)]
            ELSE [err |-> "InvalidPayload", payload |-> NoPayload]

\* Payload::to_raw_bytes and Payload::to_bytes
Payload_to_raw_bytes(payload) ==
    IF payload.protocol = "ID" THEN to_leb_bytes(payload.id) ELSE payload.data

Payload_to_bytes(payload) ==
    <<Protocol_as_byte(payload.protocol)>> \o Payload_to_raw_bytes(payload)

NoAddress == [network |-> "None", payload |-> NoPayload]

Address_new(network, protocol, bz) ==
    LET p == Payload_new(protocol, bz)
    IN [err |-> p.err,
        addr |-> IF p.err = Ok THEN [network |-> network, payload |-> p.payload]
                 ELSE NoAddress]

Address_from_bytes(bz) ==
    IF Len(bz) < 2 THEN [err |-> "InvalidLength", addr |-> NoAddress]
    ELSE IF Protocol_from_byte(bz[1]) = "None"
    THEN [err |-> "UnknownProtocol", addr |-> NoAddress]
    ELSE Address_new(NETWORK_DEFAULT, Protocol_from_byte(bz[1]), SubSeq(bz, 2, Len(bz)))

Address_to_bytes(a) == Payload_to_bytes(a.payload)

\* #[derive(PartialEq, Eq, Hash)] on Address: every field is compared, and
\* every field is fed to the hasher
address_eq(a, b) == a.network = b.network /\ a.payload = b.payload
address_hash_feed(a) == <<a.network, a.payload>>

\* blake2b_variable(ingest, size) stands for a digest of `size` bytes that
\* depends on every byte of the ingest and on its length
RECURSIVE ByteMix(_, _)
ByteMix(bz, i) == IF i > Len(bz) THEN 0 ELSE (bz[i] * (2 * i + 1) + ByteMix(bz, i + 1)) % 256

blake2b_variable(ingest, size) ==
    [i \in 1..size |-> (ByteMix(ingest, 1) + 7 * i + Len(ingest)) % 256]

address_hash(ingest) == blake2b_variable(ingest, PAYLOAD_HASH_LEN)
checksum(ingest) == blake2b_variable(ingest, CHECKSUM_HASH_LEN)
validate_checksum(ingest, expect) == checksum(ingest) = expect

\* the inputs: ids, keys and byte strings
IdSamples == {0, 1, 127, 128, MaxId}
KeySamples == {<<>>, <<1>>, <<1, 2>>}
BlsKeys == {[i \in 1..BLS_PUB_LEN |-> b] : b \in {0, 255}}
ByteSamples == {0, 1, 3, 4, 128}

RECURSIVE BytesUpTo(_)
BytesUpTo(n) ==
    IF n = 0 THEN {<<>>}
    ELSE LET shorter == BytesUpTo(n - 1)
         IN shorter \cup {Append(s, b) : s \in {t \in shorter : Len(t) = n - 1},
                                         b \in ByteSamples}

SampleAddresses ==
    {[network |-> n, payload |-> p] :
        n \in Networks,
        p \in {PayloadID(id) : id \in IdSamples}
               \cup {PayloadRaw(q, address_hash(k)) : q \in {"Secp256k1", "Actor"},
                                                       k \in KeySamples}
               \cup {PayloadRaw("BLS", k) : k \in BlsKeys}}

ByteInputs ==
    BytesUpTo(MaxBytesLen)
        \cup {Address_to_bytes(a) : a \in SampleAddresses}
        \cup {<<p>> \o SubSeq(address_hash(<<>>), 1, PAYLOAD_HASH_LEN - 1) : p \in 1..3}

ANoCall == [op |-> "none", input |-> <<>>, err |-> Ok, out |-> <<>>, before |-> NoAddress]

ARecord(op, input, err, out) ==
    [op |-> op, input |-> input, err |-> err, out |-> out, before |-> address]

\* a constructor or parser returned `r`: the caller holds the new address
\* when it is Ok and keeps the one it had otherwise
Constructed(op, input, r) ==
    /\ address' = IF r.err = Ok THEN r.addr ELSE address
    /\ alast' = ARecord(op, input, r.err, <<>>)
    /\ UNCHANGED <<paychVars, marketVars, gasVars, utilVars>>

Address_new_id(id) ==
    [err |-> Ok, addr |-> [network |-> NETWORK_DEFAULT, payload |-> PayloadID(id)]]

Address_new_secp256k1(pubkey) ==
    [err |-> Ok, addr |-> [network |-> NETWORK_DEFAULT,
                           payload |-> PayloadRaw("Secp256k1", address_hash(pubkey))]]

Address_new_actor(data) ==
    [err |-> Ok, addr |-> [network |-> NETWORK_DEFAULT,
                           payload |-> PayloadRaw("Actor", address_hash(data))]]

Address_new_bls(pubkey) ==
    IF Len(pubkey) # BLS_PUB_LEN THEN [err |-> "InvalidBLSLength", addr |-> NoAddress]
    ELSE [err |-> Ok, addr |-> [network |-> NETWORK_DEFAULT,
                                payload |-> PayloadRaw("BLS", pubkey)]]

new_id == \E id \in IdSamples : Constructed("new_id", <<id>>, Address_new_id(id))
new_secp256k1 ==
    \E pubkey \in KeySamples : Constructed("new_secp256k1", pubkey, Address_new_secp256k1(pubkey))
new_actor == \E data \in KeySamples : Constructed("new_actor", data, Address_new_actor(data))
new_bls ==
    \E pubkey \in BlsKeys \cup KeySamples :
        Constructed("new_bls", pubkey, Address_new_bls(pubkey))
from_bytes == \E bz \in ByteInputs : Constructed("from_bytes", bz, Address_from_bytes(bz))

set_network ==
    /\ address # NoAddress
    /\ \E network \in Networks :
        /\ address' = [address EXCEPT !.network = network]
        /\ alast' = ARecord("set_network", <<network>>, Ok, <<>>)
    /\ UNCHANGED <<paychVars, marketVars, gasVars, utilVars>>

to_bytes ==
    /\ address # NoAddress
    /\ alast' = ARecord("to_bytes", <<>>, Ok, Address_to_bytes(address))
    /\ UNCHANGED <<paychVars, marketVars, gasVars, utilVars, address>>

(***************************************************************************)
(* The text form.  A string is a sequence of one-character strings.        *)
(* ADDRESS_ENCODER is base32 over "abcdefghijklmnopqrstuvwxyz234567"       *)
(* without padding: five bits a symbol, high bits first; decoding refuses  *)
(* a symbol outside the alphabet, a length that no encoding has and        *)
(* trailing bits that are not zero.                                        *)
(***************************************************************************)
MAX_ADDRESS_LEN == 86
MAX_ID_TEXT_LEN == 20
MAINNET_PREFIX == "f"
TESTNET_PREFIX == "t"

ADDRESS_ENCODER ==
    <<"a", "b", "c", "d", "e", "f", "g", "h", "i", "j", "k", "l", "m", "n", "o", "p",
      "q", "r", "s", "t", "u", "v", "w", "x", "y", "z", "2", "3", "4", "5", "6", "7">>

IsSymbol(c) == \E i \in 1..32 : ADDRESS_ENCODER[i] = c
SymbolValue(c) == (CHOOSE i \in 1..32 : ADDRESS_ENCODER[i] = c) - 1

\* bit j (from 0, high bits first) of a sequence of `width`-bit values
BitOf(vals, width, j) ==
    IF j \div width >= Len(vals) THEN 0
    ELSE (vals[(j \div width) + 1] \div (2 ^ (width - 1 - (j % width)))) % 2

\* the `width`-bit value that starts at bit j of a sequence of `w`-bit values
Regroup(vals, w, width, j) ==
    LET RECURSIVE Take(_)
        Take(i) == IF i = width THEN 0
                   ELSE BitOf(vals, w, j + i) * (2 ^ (width - 1 - i)) + Take(i + 1)
    IN Take(0)

base32_encode(bz) ==
    [k \in 1..((8 * Len(bz) + 4) \div 5) |->
        ADDRESS_ENCODER[Regroup(bz, 8, 5, 5 * (k - 1)) + 1]]

base32_decode(raw) ==
    IF \E i \in 1..Len(raw) : ~IsSymbol(raw[i]) THEN [err |-> "InvalidPayload", bytes |-> <<>>]
    ELSE LET vals == [i \in 1..Len(raw) |-> SymbolValue(raw[i])]
             n == (5 * Len(raw)) \div 8
         IN IF (Len(raw) % 8) \in {1, 3, 6}
               \/ \E j \in (8 * n)..(5 * Len(raw) - 1) : BitOf(vals, 5, j) # 0
            THEN [err |-> "InvalidPayload", bytes |-> <<>>]
            ELSE [err |-> Ok, bytes |-> [k \in 1..n |-> Regroup(vals, 5, 8, 8 * (k - 1))]]

Digits == <<"0", "1", "2", "3", "4", "5", "6", "7", "8", "9">>
IsDigit(c) == \E i \in 1..10 : Digits[i] = c
DigitValue(c) == (CHOOSE i \in 1..10 : Digits[i] = c) - 1

\* u64's to_string
RECURSIVE u64_to_string(_)
u64_to_string(n) ==
    IF n < 10 THEN <<Digits[n + 1]>> ELSE Append(u64_to_string(n \div 10), Digits[(n % 10) + 1])

\* str::parse::<u64>: decimal digits after an optional "+"; anything else is
\* an error.  (A value beyond u64 needs twenty digits, beyond the inputs
\* used here.)
RECURSIVE digits_value(_, _, _)
digits_value(raw, i, acc) ==
    IF i > Len(raw) THEN acc ELSE digits_value(raw, i + 1, 10 * acc + DigitValue(raw[i]))

parse_u64(raw) ==
    LET body == IF raw # <<>> /\ raw[1] = "+" THEN Tail(raw) ELSE raw
    IN IF body = <<>> \/ \E i \in 1..Len(body) : ~IsDigit(body[i])
       THEN [err |-> "InvalidPayload", id |-> 0]
       ELSE [err |-> Ok, id |-> digits_value(body, 1, 0)]

Network_to_prefix(network) == IF network = "Mainnet" THEN MAINNET_PREFIX ELSE TESTNET_PREFIX
Protocol_to_string(p) == Digits[Protocol_as_byte(p) + 1]

\* encode (Display)
encode(addr) ==
    IF addr.payload.protocol = "ID"
    THEN <<Network_to_prefix(addr.network), Protocol_to_string("ID")>>
            \o u64_to_string(from_leb_bytes(Payload_to_raw_bytes(addr.payload)).id)
    ELSE <<Network_to_prefix(addr.network), Protocol_to_string(addr.payload.protocol)>>
            \o base32_encode(Payload_to_raw_bytes(addr.payload)
                                \o checksum(Address_to_bytes(addr)))

\* the part of from_str after the base32 body has been decoded
from_str_decoded(network, protocol, decoded) ==
    IF Len(decoded) < CHECKSUM_HASH_LEN THEN [err |-> "Panic", addr |-> NoAddress]
    ELSE LET payload == SubSeq(decoded, 1, Len(decoded) - CHECKSUM_HASH_LEN)
             cksm == SubSeq(decoded, Len(decoded) - CHECKSUM_HASH_LEN + 1, Len(decoded))
         IN IF protocol \in {"Secp256k1", "Actor"} /\ Len(payload) # PAYLOAD_HASH_LEN
            THEN [err |-> "InvalidPayload", addr |-> NoAddress]
            ELSE IF protocol = "BLS" /\ Len(payload) # BLS_PUB_LEN
            THEN [err |-> "InvalidPayload", addr |-> NoAddress]
            ELSE IF ~validate_checksum(<<Protocol_as_byte(protocol)>> \o payload, cksm)
            THEN [err |-> "InvalidChecksum", addr |-> NoAddress]
            ELSE Address_new(network, protocol, payload)

Address_from_str(addr) ==
    IF Len(addr) > MAX_ADDRESS_LEN \/ Len(addr) < 3
    THEN [err |-> "InvalidLength", addr |-> NoAddress]
    ELSE IF addr[1] \notin {TESTNET_PREFIX, MAINNET_PREFIX}
    THEN [err |-> "UnknownNetwork", addr |-> NoAddress]
    ELSE IF addr[2] \notin {"0", "1", "2", "3"}
    THEN [err |-> "UnknownProtocol", addr |-> NoAddress]
    ELSE LET network == IF addr[1] = TESTNET_PREFIX THEN "Testnet" ELSE "Mainnet"
             protocol == Protocol_from_byte(DigitValue(addr[2]))
             raw == SubSeq(addr, 3, Len(addr))
         IN IF protocol = "ID"
            THEN IF Len(raw) > MAX_ID_TEXT_LEN
                 THEN [err |-> "InvalidLength", addr |-> NoAddress]
                 ELSE IF parse_u64(raw).err # Ok
                 THEN [err |-> parse_u64(raw).err, addr |-> NoAddress]
                 ELSE Address_new_id(parse_u64(raw).id)
            ELSE IF base32_decode(raw).err # Ok
            THEN [err |-> base32_decode(raw).err, addr |-> NoAddress]
            ELSE from_str_decoded(network, protocol, base32_decode(raw).bytes)

BodySamples ==
    {<<>>, <<"0">>, <<"1", "0", "2", "4">>, <<"+", "7">>, <<"a">>, <<"a", "a">>, <<"7", "x">>}

\* a text with its last character replaced
Tampered(text) == [text EXCEPT ![Len(text)] = IF text[Len(text)] = "a" THEN "b" ELSE "a"]

TextInputs ==
    {encode(a) : a \in SampleAddresses}
        \cup {Tampered(encode(a)) : a \in SampleAddresses}
        \cup {<<n, p>> \o body : n \in {"t", "f", "x"}, p \in {"0", "1", "4"},
                                 body \in BodySamples}

from_str == \E addr \in TextInputs : Constructed("from_str", addr, Address_from_str(addr))

to_string ==
    /\ address # NoAddress
    /\ alast' = ARecord("to_string", <<>>, Ok, encode(address))
    /\ UNCHANGED <<paychVars, marketVars, gasVars, utilVars, address>>

AddressInit ==
    /\ address = NoAddress
    /\ alast = ANoCall

GasInit ==
    /\ gas_limit = MaxGas
    /\ gas_start = 0
    /\ gas_used = 0
    /\ gas_charged = 0
    /\ gas_failed = FALSE
    /\ glast = GNoCall

(***************************************************************************)
(* BitField (utils/bitfield).  A bit field is a vector of ranges of 1s and *)
(* two buffers, the bits set and the bits unset since.  iter.rs is not     *)
(* among the sources: a range iterator is a sequence of disjoint,          *)
(* ascending, non-empty half-open ranges, and merge, difference, flatten,  *)
(* skip_bits and take_bits are what the text says of them.                 *)
(***************************************************************************)
Bits == 0..MaxBit

Range(start, end) == [start |-> start, end |-> end]

\* Vec::sort_unstable of the elements of a set
RECURSIVE sorted(_)
sorted(S) ==
    IF S = {} THEN <<>>
    ELSE LET m == CHOOSE x \in S : \A y \in S : x <= y
         IN <<m>> \o sorted(S \ {m})

\* ranges_from_bits: the runs of consecutive values of an ascending sequence
RECURSIVE ranges_from_bits(_)
ranges_from_bits(bits) ==
    IF bits = <<>> THEN <<>>
    ELSE LET rest == ranges_from_bits(Tail(bits))
         IN IF rest # <<>> /\ rest[1].start = bits[1] + 1
            THEN <<Range(bits[1], rest[1].end)>> \o Tail(rest)
            ELSE <<Range(bits[1], bits[1] + 1)>> \o rest

\* flatten: the bits of the ranges, in order
RECURSIVE flatten(_)
flatten(ranges) ==
    IF ranges = <<>> THEN <<>>
    ELSE [i \in 1..(ranges[1].end - ranges[1].start) |-> ranges[1].start + i - 1]
            \o flatten(Tail(ranges))

BitsOf(ranges) == UNION {ranges[k].start..(ranges[k].end - 1) : k \in 1..Len(ranges)}

range_merge(a, b) == ranges_from_bits(sorted(BitsOf(a) \cup BitsOf(b)))
range_difference(a, b) == ranges_from_bits(sorted(BitsOf(a) \ BitsOf(b)))

\* skip_bits(n) drops the n lowest bits; take_bits(n) keeps the n lowest
skip_bits(ranges, n) ==
    LET bits == flatten(ranges)
    IN IF n >= Len(bits) THEN <<>> ELSE ranges_from_bits(SubSeq(bits, n + 1, Len(bits)))

take_bits(ranges, n) ==
    LET bits == flatten(ranges)
    IN IF n >= Len(bits) THEN ranges ELSE ranges_from_bits(SubSeq(bits, 1, n))

BitField(ranges, set, unset) == [ranges |-> ranges, set |-> set, unset |-> unset]

BitField_new == BitField(<<>>, {}, {})
BitField_from_ranges(ranges) == BitField(ranges, {}, {})

BitField_set(bf, bit) ==
    BitField(bf.ranges, bf.set \cup {bit}, bf.unset \ {bit})

UnsetKeepsSet(bf, bit) == BitField(bf.ranges, bf.set, bf.unset \cup {bit})

BitField_unset(bf, bit) ==
    BitField(bf.ranges, bf.set \ {bit}, bf.unset \cup {bit})

\* slice::binary_search_by over the ordered ranges: is `index` in one of them
RECURSIVE range_search(_, _, _, _)
range_search(ranges, index, lo, hi) ==
    IF lo >= hi THEN FALSE
    ELSE LET mid == lo + ((hi - lo) \div 2)
         IN IF index < ranges[mid].start THEN range_search(ranges, index, lo, mid)
            ELSE IF index >= ranges[mid].end THEN range_search(ranges, index, mid + 1, hi)
            ELSE TRUE

BitField_get(bf, index) ==
    IF index \in bf.set THEN TRUE
    ELSE IF index \in bf.unset THEN FALSE
    ELSE range_search(bf.ranges, index, 1, Len(bf.ranges) + 1)

inner_ranges(bf) == bf.ranges

None == [some |-> FALSE, value |-> 0]
Some(v) == [some |-> TRUE, value |-> v]

\* Iterator::find / filter over a sequence of bits
Unfiltered(bf, bits) == bits

filter_unset(bf, bits) == SelectSeq(bits, LAMBDA i : i \notin bf.unset)

BitField_first(bf) ==
    LET min_range == IF bf.set = {} THEN <<>>
                     ELSE <<Range(sorted(bf.set)[1], sorted(bf.set)[1] + 1)>>
        found == filter_unset(bf, flatten(range_merge(inner_ranges(bf), min_range)))
    IN IF found = <<>> THEN None ELSE Some(found[1])

BitField_iter(bf) ==
    filter_unset(bf, flatten(range_merge(inner_ranges(bf), ranges_from_bits(sorted(bf.set)))))

BitField_ranges(bf) ==
    range_difference(range_merge(inner_ranges(bf), ranges_from_bits(sorted(bf.set))),
                     ranges_from_bits(sorted(bf.unset)))

RECURSIVE sum_range_len(_)
sum_range_len(ranges) ==
    IF ranges = <<>> THEN 0
    ELSE (ranges[1].end - ranges[1].start) + sum_range_len(Tail(ranges))

BitField_len(bf) == sum_range_len(BitField_ranges(bf))

BitField_is_empty(bf) ==
    /\ bf.set = {}
    /\ \A bit \in BitsOf(inner_ranges(bf)) : bit \in bf.unset

BitField_slice(bf, start, len) ==
    LET slice == BitField_from_ranges(take_bits(skip_bits(BitField_ranges(bf), start), len))
    IN IF BitField_len(slice) = len THEN [err |-> Ok, bf |-> slice]
       ELSE [err |-> "Not enough bits", bf |-> BitField_new]

\* the bit field the caller holds
ThisBitField == BitField(bf_ranges, bf_set, bf_unset)

Untouched == [i \in Bits |-> "none"]

BNoCall == [op |-> "none", args |-> <<>>, out |-> <<>>]

bfFields == <<bf_ranges, bf_set, bf_unset, bf_touched>>
bfOthers == <<paychVars, marketVars, gasVars, addrVars, hamtVars, initVars>>

\* BitField::from_ranges over the runs of any set of bits
from_ranges ==
    /\ \E S \in SUBSET Bits :
        /\ bf_ranges' = ranges_from_bits(sorted(S))
        /\ blast' = [op |-> "from_ranges", args |-> <<S>>, out |-> <<>>]
    /\ bf_set' = {}
    /\ bf_unset' = {}
    /\ bf_touched' = Untouched
    /\ UNCHANGED bfOthers

Mutated(op, bit, bf) ==
    /\ bf_ranges' = bf.ranges
    /\ bf_set' = bf.set
    /\ bf_unset' = bf.unset
    /\ bf_touched' = [bf_touched EXCEPT ![bit] = op]
    /\ blast' = [op |-> op, args |-> <<bit>>, out |-> <<>>]
    /\ UNCHANGED bfOthers

set == \E bit \in Bits : Mutated("set", bit, BitField_set(ThisBitField, bit))
unset == \E bit \in Bits : Mutated("unset", bit, BitField_unset(ThisBitField, bit))

Queried(op, args, out) ==
    /\ blast' = [op |-> op, args |-> args, out |-> out]
    /\ UNCHANGED <<bfFields, bfOthers>>

get == \E index \in Bits : Queried("get", <<index>>, <<BitField_get(ThisBitField, index)>>)
first == Queried("first", <<>>, <<BitField_first(ThisBitField)>>)
iter == Queried("iter", <<>>, BitField_iter(ThisBitField))
len == Queried("len", <<>>, <<BitField_len(ThisBitField)>>)
is_empty == Queried("is_empty", <<>>, <<BitField_is_empty(ThisBitField)>>)
slice ==
    \E start \in 0..(MaxBit + 1), n \in 0..(MaxBit + 1) :
        Queried("slice", <<start, n>>, <<BitField_slice(ThisBitField, start, n)>>)

BitFieldInit ==
    /\ bf_ranges = BitField_new.ranges
    /\ bf_set = BitField_new.set
    /\ bf_unset = BitField_new.unset
    /\ bf_touched = Untouched
    /\ blast = BNoCall

(***************************************************************************)
(* HAMT pointers (ipld/hamt).  A pointer is a bucket of key/value pairs,   *)
(* a link or a cached node; a node is its vector of pointers.  node.rs and *)
(* the crate root are not among the sources: MAX_ARRAY_WIDTH is 3 and a    *)
(* bucket built by inserts keeps its pairs in the order of their keys, as  *)
(* the text says.  A serialized pointer is a map from text keys to values. *)
(***************************************************************************)
MAX_ARRAY_WIDTH == 3

Values(vals) == [kind |-> "Values", vals |-> vals, cid |-> "", pointers |-> <<>>]
Link(cid) == [kind |-> "Link", vals |-> <<>>, cid |-> cid, pointers |-> <<>>]
Cache(pointers) == [kind |-> "Cache", vals |-> <<>>, cid |-> "", pointers |-> pointers]
NoPointer == [kind |-> "none", vals |-> <<>>, cid |-> "", pointers |-> <<>>]

KeyValuePair(key) == <<key, 10 * key>>

EmptyMap == [k \in {} |-> 0]

\* impl Serialize for Pointer
Pointer_serialize(p) ==
    CASE p.kind = "Values" -> [err |-> Ok, map |-> [k \in {"1"} |-> p.vals]]
      [] p.kind = "Link" -> [err |-> Ok, map |-> [k \in {"0"} |-> p.cid]]
      [] OTHER -> [err |-> "Cannot serialize cached values", map |-> EmptyMap]

\* impl Deserialize for Pointer: the derived PointerDeser reads the optional
\* fields "1" and "0" and ignores other keys
Pointer_deserialize(map) ==
    LET vals == IF "1" \in DOMAIN map THEN Some(map["1"]) ELSE None
        cid == IF "0" \in DOMAIN map THEN Some(map["0"]) ELSE None
    IN IF vals.some THEN [err |-> Ok, pointer |-> Values(vals.value)]
       ELSE IF cid.some THEN [err |-> Ok, pointer |-> Link(cid.value)]
       ELSE [err |-> "Unexpected pointer serialization", pointer |-> NoPointer]

\* the loop of clean over the pointers of the cached node: the collected
\* values, or "keep" when the node is to be left as it is
RECURSIVE push_values(_, _, _)
push_values(kvs, i, child_vals) ==
    IF i > Len(kvs) THEN [keep |-> FALSE, vals |-> child_vals]
    ELSE IF Len(child_vals) = MAX_ARRAY_WIDTH THEN [keep |-> TRUE, vals |-> child_vals]
    ELSE push_values(kvs, i + 1, Append(child_vals, kvs[i]))

CollectFirstOnly(pointers, i, child_vals) ==
    IF pointers[1].kind = "Values"
    THEN [keep |-> FALSE, vals |-> pointers[1].vals]
    ELSE [keep |-> TRUE, vals |-> child_vals]

RECURSIVE collect_child_vals(_, _, _)
collect_child_vals(pointers, i, child_vals) ==
    IF i > Len(pointers) THEN [keep |-> FALSE, vals |-> child_vals]
    ELSE IF pointers[i].kind # "Values" THEN [keep |-> TRUE, vals |-> child_vals]
    ELSE LET pushed == push_values(pointers[i].vals, 1, child_vals)
         IN IF pushed.keep THEN pushed
            ELSE collect_child_vals(pointers, i + 1, pushed.vals)

\* Pointer::clean
Pointer_clean(p) ==
    IF p.kind # "Cache" THEN [err |-> "Panic", pointer |-> p]
    ELSE IF Len(p.pointers) = 0 THEN [err |-> "ZeroPointers", pointer |-> p]
    ELSE IF Len(p.pointers) = 1
    THEN [err |-> Ok,
          pointer |-> IF p.pointers[1].kind = "Values" THEN p.pointers[1] ELSE p]
    ELSE IF Len(p.pointers) <= MAX_ARRAY_WIDTH
    THEN LET collected == collect_child_vals(p.pointers, 1, <<>>)
         IN [err |-> Ok,
             pointer |-> IF collected.keep THEN p ELSE Values(collected.vals)]
    ELSE [err |-> Ok, pointer |-> p]

\* a bucket built by inserts: the pair goes before the first pair of a
\* greater key
bucket_insert(vals, kv) ==
    LET greater == {i \in 1..Len(vals) : vals[i][1] > kv[1]}
        idx == IF greater = {} THEN Len(vals) + 1
               ELSE CHOOSE i \in greater : \A j \in greater : i <= j
    IN SubSeq(vals, 1, idx - 1) \o <<kv>> \o SubSeq(vals, idx, Len(vals))

RECURSIVE bucket_of(_)
bucket_of(keys) ==
    IF keys = <<>> THEN <<>>
    ELSE bucket_insert(bucket_of(Tail(keys)), KeyValuePair(keys[1]))

\* the inputs: the buckets of the key sets of at most MAX_ARRAY_WIDTH keys,
\* a link, a cached grandchild, and the nodes of at most MaxPointers pointers
\* whose buckets share no key
Keys == 1..MaxKey
KeySeqs == {s \in SeqsUpTo(Keys, MAX_ARRAY_WIDTH) : s # <<>> /\ \A i, j \in 1..Len(s) : i < j => s[i] < s[j]}
Buckets == {Values(bucket_of(s)) : s \in KeySeqs}
SampleChildren == Buckets \cup {Link("cid1"), Cache(<<Link("cid2")>>)}

KeysOfPointer(p) == {p.vals[i][1] : i \in 1..Len(p.vals)}

DisjointBuckets(ps) ==
    \A i, j \in 1..Len(ps) : i < j => KeysOfPointer(ps[i]) \cap KeysOfPointer(ps[j]) = {}

\* the nodes of at most n pointers, grown one pointer at a time from the
\* shorter nodes whose buckets share no key
RECURSIVE NodesUpTo(_)
NodesUpTo(n) ==
    IF n = 0 THEN {<<>>}
    ELSE LET shorter == NodesUpTo(n - 1)
             longest == {q \in shorter : Len(q) = n - 1}
         IN shorter \cup
            {Append(pc[1], pc[2]) :
                pc \in {qc \in longest \X SampleChildren :
                            DisjointBuckets(Append(qc[1], qc[2]))}}

SampleNodes == {ps \in NodesUpTo(MaxPointers) : DisjointBuckets(ps)}

SampleMaps ==
    {EmptyMap, [k \in {"2"} |-> "x"]}
        \cup {[k \in {"0"} |-> "cid1"], [k \in {"0", "2"} |-> "cid1"]}
        \cup {[k \in {"1"} |-> b.vals] : b \in Buckets}
        \cup {[k \in {"0", "1"} |-> IF k = "0" THEN "cid1" ELSE b.vals] : b \in Buckets}

HNoCall == [op |-> "none", input |-> NoPointer, map |-> EmptyMap, err |-> Ok]

hamtOthers == <<paychVars, marketVars, gasVars, addrVars, bfVars, initVars>>

serialize ==
    /\ hlast = HNoCall
    /\ \E p \in SampleChildren \cup {Cache(<<>>)} :
        /\ hlast' = [op |-> "serialize", input |-> p, map |-> Pointer_serialize(p).map,
                     err |-> Pointer_serialize(p).err]
        /\ pointer' = p
    /\ UNCHANGED hamtOthers

deserialize ==
    /\ hlast = HNoCall
    /\ \E map \in SampleMaps :
        /\ hlast' = [op |-> "deserialize", input |-> NoPointer, map |-> map,
                     err |-> Pointer_deserialize(map).err]
        /\ pointer' = Pointer_deserialize(map).pointer
    /\ UNCHANGED hamtOthers

clean ==
    /\ hlast = HNoCall
    /\ \E ps \in SampleNodes :
        /\ hlast' = [op |-> "clean", input |-> Cache(ps), map |-> EmptyMap,
                     err |-> Pointer_clean(Cache(ps)).err]
        /\ pointer' = Pointer_clean(Cache(ps)).pointer
    /\ UNCHANGED hamtOthers

PointerReturn ==
    /\ hlast # HNoCall
    /\ hlast' = HNoCall
    /\ pointer' = NoPointer
    /\ UNCHANGED hamtOthers

PointerInit ==
    /\ pointer = NoPointer
    /\ hlast = HNoCall

(***************************************************************************)
(* The init actor's State (init/state.rs): address_map, a HAMT from the    *)
(* bytes of an address to an ActorID, and next_id.  network_name is set at *)
(* construction and never read by the two methods.  The HAMT and the block *)
(* store are not among the sources: the map stands for the contents its    *)
(* root Cid names, as a set of <<key, id>> pairs with one pair a key, and  *)
(* any of its operations may fail with a store error.                      *)
(***************************************************************************)
FIRST_NON_SINGLETON_ADDR == 100

Hamt_set(map, key, value) == {e \in map : e[1] # key} \cup {<<key, value>>}

Hamt_get(map, key) ==
    IF \E e \in map : e[1] = key
    THEN Some((CHOOSE e \in map : e[1] = key)[2])
    ELSE None

\* State::new
State_new == [address_map |-> {}, next_id |-> FIRST_NON_SINGLETON_ADDR]

\* the id is handed out without moving next_id
MapKeepsNextId(st, addr, fail) ==
    IF fail # "none" THEN [state |-> st, err |-> "StoreError", out |-> NoAddress]
    ELSE [state |-> [st EXCEPT !.address_map =
                        Hamt_set(st.address_map, Address_to_bytes(addr), st.next_id)],
          err |-> Ok,
          out |-> Address_new_id(st.next_id).addr]

\* State::map_address_to_new_id: next_id is moved first, then the map is
\* loaded, set and flushed; `fail` names the map operation that fails, if any.
\* (next_id += 1 overflows at 2^64, beyond the ids used here.)
State_map_address_to_new_id(st, addr, fail) ==
    LET id == st.next_id
        moved == [st EXCEPT !.next_id = id + 1]
    IN  IF fail # "none" THEN [state |-> moved, err |-> "StoreError", out |-> NoAddress]
        ELSE [state |-> [moved EXCEPT !.address_map =
                            Hamt_set(st.address_map, Address_to_bytes(addr), id)],
              err |-> Ok,
              out |-> Address_new_id(id).addr]

\* State::resolve_address: Ok(Some(address)), Ok(None) or the store's error
State_resolve_address(st, addr, fail) ==
    IF addr.payload.protocol = "ID" THEN [err |-> Ok, found |-> TRUE, out |-> addr]
    ELSE IF fail # "none" THEN [err |-> "StoreError", found |-> FALSE, out |-> NoAddress]
    ELSE LET r == Hamt_get(st.address_map, Address_to_bytes(addr))
         IN  [err |-> Ok, found |-> r.some,
              out |-> IF r.some THEN Address_new_id(r.value).addr ELSE NoAddress]

\* the addresses the init actor is asked about: an ID address, two Secp256k1
\* keys, an Actor address with the hash of the first key, and the first key's
\* address on the other network
InitAddresses ==
    {Address_new_id(1).addr,
     Address_new_secp256k1(<<1>>).addr,
     Address_new_secp256k1(<<1, 2>>).addr,
     Address_new_actor(<<1>>).addr,
     [Address_new_secp256k1(<<1>>).addr EXCEPT !.network = "Mainnet"]}

ThisInitState == [address_map |-> address_map, next_id |-> init_next_id]

INoCall == [op |-> "none", addr |-> NoAddress, fail |-> "none", err |-> Ok,
            found |-> FALSE, out |-> NoAddress, pre |-> State_new]

initOthers == <<paychVars, marketVars, gasVars, addrVars, bfVars, hamtVars>>

map_address_to_new_id ==
    \E addr \in InitAddresses, fail \in {"none", "make_map_with_root", "set", "flush"} :
        /\ init_next_id < FIRST_NON_SINGLETON_ADDR + MaxMappings
        /\ LET r == State_map_address_to_new_id(ThisInitState, addr, fail)
           IN  /\ address_map' = r.state.address_map
               /\ init_next_id' = r.state.next_id
               /\ mapped' = IF r.err = Ok
                            THEN Append(mapped, [addr |-> addr, id |-> r.out.payload.id])
                            ELSE mapped
               /\ ilast' = [op |-> "map_address_to_new_id", addr |-> addr, fail |-> fail,
                            err |-> r.err, found |-> r.err = Ok, out |-> r.out,
                            pre |-> ThisInitState]
        /\ UNCHANGED initOthers

resolve ==
    \E addr \in InitAddresses, fail \in {"none", "make_map_with_root", "get"} :
        /\ LET r == State_resolve_address(ThisInitState, addr, fail)
           IN  ilast' = [op |-> "resolve_address", addr |-> addr, fail |-> fail,
                         err |-> r.err, found |-> r.found, out |-> r.out,
                         pre |-> ThisInitState]
        /\ UNCHANGED <<address_map, init_next_id, mapped>>
        /\ UNCHANGED initOthers

InitStateInit ==
    /\ address_map = State_new.address_map
    /\ init_next_id = State_new.next_id
    /\ mapped = <<>>
    /\ ilast = INoCall

PaychInit ==
    /\ created = FALSE
    /\ from = NoAddr /\ to = NoAddr
    /\ to_send = 0 /\ settling_at = 0 /\ min_settle_height = 0
    /\ lane_states = <<>>
    /\ balance = 0
    /\ curr_epoch = 0
    /\ last = NoCall

MarketInit ==
    /\ m_created = FALSE
    /\ proposals = <<>> /\ states = <<>> /\ pending_proposals = {}
    /\ escrow_table = [a \in Holders |-> 0]
    /\ locked_table = [a \in Holders |-> 0]
    /\ deal_ops_by_epoch = {}
    /\ next_id = 0
    /\ last_cron = EPOCH_UNDEFINED
    /\ m_epoch = 0
    /\ mlast = MNoCall

Init ==
    /\ PaychInit /\ MarketInit /\ GasInit /\ AddressInit
    /\ BitFieldInit /\ PointerInit /\ InitStateInit

MarketNext ==
    \/ market_constructor
    \/ add_balance
    \/ withdraw_balance
    \/ publish_storage_deals
    \/ verify_deals_for_activation
    \/ activate_deals
    \/ on_miners_sector_terminate
    \/ compute_data_commitment
    \/ cron_tick
    \/ market_invalid_method
    \/ MarketReturn
    \/ MarketTick

MarketSpec == Init /\ [][MarketNext]_vars

PaychNext ==
    \/ paych_constructor
    \/ update_channel_state(LaneVouchers)
    \/ settle
    \/ collect
    \/ paych_invalid_method
    \/ PaychReturn
    \/ Tick
    \/ Deposit

PaychSpec == Init /\ [][PaychNext]_vars

SettleNext ==
    \/ paych_constructor
    \/ update_channel_state(SettleVouchers)
    \/ settle
    \/ collect
    \/ PaychReturn
    \/ Tick
    \/ Deposit

SettleSpec == Init /\ [][SettleNext]_vars

\* both actors deployed, called with every method number; of the methods,
\* the constructors only
DispatchNext ==
    \/ paych_constructor
    \/ paych_invalid_method
    \/ PaychReturn
    \/ Tick
    \/ Deposit
    \/ market_constructor
    \/ market_invalid_method
    \/ MarketReturn
    \/ MarketTick

DispatchSpec == Init /\ [][DispatchNext]_vars

GasNext ==
    \/ gas_tracker_new
    \/ verify_signature
    \/ hash_blake2b
    \/ compute_unsealed_sector_cid
    \/ verify_seal
    \/ verify_post
    \/ verify_consensus_fault
    \/ batch_verify_seals
    \/ GasReturn

GasSpec == Init /\ [][GasNext]_vars

AddressNext ==
    \/ new_id
    \/ new_secp256k1
    \/ new_actor
    \/ new_bls
    \/ from_bytes
    \/ from_str
    \/ set_network
    \/ to_bytes
    \/ to_string

AddressSpec == Init /\ [][AddressNext]_vars

BitFieldNext ==
    \/ from_ranges
    \/ set
    \/ unset
    \/ get
    \/ first
    \/ iter
    \/ len
    \/ is_empty
    \/ slice

BitFieldSpec == Init /\ [][BitFieldNext]_vars

PointerNext ==
    \/ serialize
    \/ deserialize
    \/ clean
    \/ PointerReturn

PointerSpec == Init /\ [][PointerNext]_vars

InitStateNext ==
    \/ map_address_to_new_id
    \/ resolve

InitStateSpec == Init /\ [][InitStateNext]_vars

(***************************************************************************)
(* Properties of the payment-channel actor.                                *)
(***************************************************************************)
HasLane(lanes, id) == \E i \in 1..Len(lanes) : lanes[i].id = id
LaneOf(lanes, id) == lanes[CHOOSE i \in 1..Len(lanes) : lanes[i].id = id]
RedeemedOf(lanes, id) == IF HasLane(lanes, id) THEN LaneOf(lanes, id).redeemed ELSE 0
NonceOf(lanes, id) == IF HasLane(lanes, id) THEN LaneOf(lanes, id).nonce ELSE 0

RECURSIVE SumMergedRedeemed(_, _, _)
SumMergedRedeemed(lanes, merges, i) ==
    IF i > Len(merges) THEN 0
    ELSE RedeemedOf(lanes, merges[i].lane) + SumMergedRedeemed(lanes, merges, i + 1)

Max(a, b) == IF a >= b THEN a ELSE b

IsUcs == last.method = "UpdateChannelState"
UcsOk == IsUcs /\ last.code = Ok
\* the invocation reached rt.transaction
InTransaction == Len(last.trace) > 0 /\ last.trace[Len(last.trace)] = Call("transaction")
SendsOf(trace) == SelectSeq(trace, LAMBDA c : c.op = "send")
\* what the voucher of the last call makes of to_send
ExpectedToSend ==
    last.pre.to_send + last.sv.amount
        - (RedeemedOf(last.pre.lane_states, last.sv.lane)
           + SumMergedRedeemed(last.pre.lane_states, last.sv.merges, 1))

C2_ToSendWithinBalance ==
    /\ 0 <= to_send /\ to_send <= balance
    /\ (IsUcs /\ (ExpectedToSend < 0 \/ ExpectedToSend > last.bal)) => last.code # Ok

\* a voucher is rejected because it would lift to_send above the balance
C2_Witness ==
    /\ IsUcs /\ InTransaction /\ last.code = ErrIllegalState
    /\ ExpectedToSend > last.bal
    /\ to_send = balance /\ balance > 0

\* C3 as stated: no successful UpdateChannelState lowers to_send.
C3_NeverLowers == UcsOk => to_send >= last.pre.to_send

\* C3 amended: a successful UpdateChannelState whose voucher amount is at
\* least what was redeemed before on its lane and on the lanes of its merge
\* entries does not lower to_send.
C3_CumulativeVoucherNeverLowers ==
    (UcsOk /\ last.sv.amount >= RedeemedOf(last.pre.lane_states, last.sv.lane)
                 + SumMergedRedeemed(last.pre.lane_states, last.sv.merges, 1))
    => to_send >= last.pre.to_send

\* a second voucher on a lane that already redeemed 1 is redeemed
C3_Witness ==
    /\ UcsOk
    /\ RedeemedOf(last.pre.lane_states, last.sv.lane) = 1
    /\ last.sv.amount = 1
    /\ last.sv.nonce > NonceOf(last.pre.lane_states, last.sv.lane)
    /\ to_send = last.pre.to_send /\ to_send = 1

\* C4 as stated: a successful UpdateChannelState on a lane that exists has a
\* voucher nonce strictly greater than the lane's nonce before the call.
C4_NonceStrictlyIncreases ==
    (UcsOk /\ HasLane(last.pre.lane_states, last.sv.lane))
    => last.sv.nonce > NonceOf(last.pre.lane_states, last.sv.lane)

\* C5: an UpdateChannelState that returns an error leaves the channel state
\* as it was before the call.
C5_ErrorLeavesState == (IsUcs /\ last.code # Ok) => PaychState = last.pre

\* the closure inserted the voucher's lane and then failed on the balance
C5_Witness ==
    /\ IsUcs /\ InTransaction /\ last.code = ErrIllegalState
    /\ ~HasLane(last.pre.lane_states, last.sv.lane)
    /\ Len(last.pre.lane_states) < LANE_LIMIT

\* what a Settle invocation that just returned has done
C6_SettleState ==
    last.method = "Settle" =>
        /\ last.code = Ok =>
              /\ last.pre.settling_at = 0
              /\ settling_at = Max(last.epoch + SETTLE_DELAY, last.pre.min_settle_height)
              /\ settling_at # 0
              /\ PaychState = [last.pre EXCEPT !.settling_at = settling_at]
        /\ last.pre.settling_at # 0 => last.code # Ok
        /\ last.code # Ok => PaychState = last.pre

\* C6: Settle succeeds only when settling_at = 0, then sets settling_at to
\* max(curr_epoch + SETTLE_DELAY, min_settle_height) and changes nothing else;
\* otherwise it fails and changes nothing; settling_at, once set, is never 0
\* again, so Settle succeeds at most once.
C6_SettleOnce == [](C6_SettleState) /\ [][settling_at # 0 => settling_at' # 0]_vars

\* Settle takes min_settle_height, which lies beyond curr_epoch + SETTLE_DELAY
C6_Witness ==
    /\ last.method = "Settle" /\ last.code = Ok
    /\ last.pre.min_settle_height > last.epoch + SETTLE_DELAY
    /\ settling_at = last.pre.min_settle_height

\* C7: whenever settling_at = 0 or curr_epoch < settling_at, Collect fails,
\* sends nothing and leaves the state and the balance; the exit code is
\* ErrForbidden for a caller that is a party of the channel (any other caller
\* is turned away before, with SysErrForbidden); from epoch settling_at on
\* Collect is not forbidden.
C7_CollectForbidden ==
    last.method = "Collect" =>
        /\ (last.pre.settling_at = 0 \/ last.epoch < last.pre.settling_at)
              => /\ last.code \in {ErrForbidden, SysErrForbidden}
                 /\ last.caller \in {last.pre.from, last.pre.to} => last.code = ErrForbidden
                 /\ SendsOf(last.trace) = <<>>
                 /\ PaychState = last.pre /\ balance = last.bal
        /\ (last.pre.settling_at # 0 /\ last.epoch >= last.pre.settling_at)
              => last.code # ErrForbidden
        /\ last.code = ErrForbidden
              => (last.pre.settling_at = 0 \/ last.epoch < last.pre.settling_at)

\* Collect one epoch before settling_at is forbidden
C7_Witness ==
    /\ last.method = "Collect" /\ last.code = ErrForbidden
    /\ last.pre.settling_at # 0 /\ last.epoch = last.pre.settling_at - 1

\* C8: a successful Collect sends current_balance - to_send to `from`, then
\* to_send to `to`, then sets to_send to 0 in its transaction and leaves the
\* rest of the state; a Collect whose send fails leaves to_send.
C8_CollectSends ==
    last.method = "Collect" =>
        /\ last.code = Ok =>
              /\ SendsOf(last.trace) = <<Send(last.pre.from, last.bal - last.pre.to_send),
                                         Send(last.pre.to, last.pre.to_send)>>
              /\ Len(last.trace) >= 3
              /\ SubSeq(last.trace, Len(last.trace) - 2, Len(last.trace))
                    = <<Send(last.pre.from, last.bal - last.pre.to_send),
                        Send(last.pre.to, last.pre.to_send), Call("transaction")>>
              /\ PaychState = [last.pre EXCEPT !.to_send = 0]
              /\ balance = 0
        /\ last.code = SendFailed => PaychState = last.pre

\* a Collect that pays a redeemed amount to `to`
C8_Witness ==
    /\ last.method = "Collect" /\ last.code = Ok
    /\ last.pre.to_send = 1 /\ to_send = 0
    /\ last.pre.lane_states # <<>> /\ lane_states = last.pre.lane_states

\* C9: lane_states is strictly ascending by lane id and holds at most
\* LANE_LIMIT lanes; a voucher for an absent lane when LANE_LIMIT lanes exist
\* fails with ErrIllegalArgument.
C9_LanesSorted ==
    /\ \A i \in 1..(Len(lane_states) - 1) : lane_states[i].id < lane_states[i + 1].id
    /\ Len(lane_states) <= LANE_LIMIT
    /\ (IsUcs /\ InTransaction /\ ~HasLane(last.pre.lane_states, last.sv.lane)
        /\ Len(last.pre.lane_states) = LANE_LIMIT) => last.code = ErrIllegalArgument

\* a voucher for lane 2 is rejected while lanes 1 and 3 fill the channel
C9_Witness ==
    /\ IsUcs /\ InTransaction /\ last.code = ErrIllegalArgument
    /\ last.sv.lane = 2
    /\ Len(lane_states) = LANE_LIMIT
    /\ lane_states[1].id = 1 /\ lane_states[2].id = 3

(***************************************************************************)
(* Properties of the runtime contract.                                     *)
(***************************************************************************)
IsValidateCall(c) ==
    c.op \in {"validate_immediate_caller_is", "validate_immediate_caller_type"}
ValidateCalls(trace) == Len(SelectSeq(trace, IsValidateCall))

\* C10 as stated: an invocation of a Market or Payment-channel method that
\* returns Ok has called validate_immediate_caller_is / _type exactly once.
C10_ValidatesExactlyOnce ==
    /\ (mlast.method # "none" /\ mlast.code = Ok) => ValidateCalls(mlast.trace) = 1
    /\ (last.method # "none" /\ last.code = Ok) => ValidateCalls(last.trace) = 1

IsStateAccess(c) == c.op \in {"state", "transaction"}
\* every access to the actor's state in the log comes after a validate call
ValidatedBeforeState(trace) ==
    \A i \in 1..Len(trace) :
        IsStateAccess(trace[i]) => \E j \in 1..(i - 1) : IsValidateCall(trace[j])

\* C11 as stated: in every Market and Payment-channel invocation the
\* validate-caller call comes before the first access to the actor's state
\* (rt.state or rt.transaction).
C11_ValidatesBeforeState ==
    /\ ValidatedBeforeState(last.trace)
    /\ ValidatedBeforeState(mlast.trace)

(***************************************************************************)
(* Properties of the market's balance methods.                             *)
(***************************************************************************)
IsM(method) == mlast.method = method
MOk(method) == mlast.method = method /\ mlast.code = Ok
Nominal == resolve_address(mlast.params.addr)

\* everything of the market's state but the escrow table is as before the call
OnlyEscrowChanged == MarketState = [mlast.pre EXCEPT !.escrow_table = escrow_table]

\* C12: a successful AddBalance(addr) with value v > 0 raises the escrow entry
\* of addr's nominal holder by exactly v on top of what it held, and leaves the
\* locked table and every other escrow entry as they were; a call with v <= 0
\* fails with ErrIllegalArgument; a failed call changes nothing.
C12_AddBalance ==
    IsM("AddBalance") =>
        /\ mlast.params.amount <= 0 => mlast.code = ErrIllegalArgument
        /\ mlast.code # Ok => MarketState = mlast.pre
        /\ mlast.code = Ok =>
              /\ mlast.params.amount > 0
              /\ escrow_table[Nominal] =
                     mlast.pre.escrow_table[Nominal] + mlast.params.amount
              /\ \A a \in Holders \ {Nominal} : escrow_table[a] = mlast.pre.escrow_table[a]
              /\ locked_table = mlast.pre.locked_table
              /\ OnlyEscrowChanged

\* a second deposit for a key address lands on top of the first
C12_Witness ==
    /\ MOk("AddBalance")
    /\ mlast.params.addr = ClientKey
    /\ mlast.pre.escrow_table[Client] = 1
    /\ escrow_table[Client] = 2

\* a deposit of nothing is refused
C12_WitnessZero ==
    /\ IsM("AddBalance") /\ mlast.params.amount = 0 /\ mlast.code = ErrIllegalArgument

IsSendOfFunds(c) == c.op = "send" /\ c.method = "Send"
FundsSent(trace) == SelectSeq(trace, IsSendOfFunds)

\* the holder's funds go to the owner of a miner, to the holder itself otherwise
RecipientOf(n) ==
    IF CodeOf(n) = "miner" THEN request_miner_control_addrs(n).owner ELSE n
ApprovedFor(n) ==
    IF CodeOf(n) = "miner"
    THEN {request_miner_control_addrs(n).owner, request_miner_control_addrs(n).worker}
    ELSE {n}

\* a WithdrawBalance with a non-negative amount for a holder, by a signing
\* caller approved for that holder
ApprovedWithdraw ==
    /\ IsM("WithdrawBalance")
    /\ mlast.params.amount >= 0
    /\ Nominal # NoAddr /\ CodeOf(Nominal) # "none"
    /\ CodeOf(mlast.caller) \in CALLER_TYPES_SIGNABLE
    /\ mlast.caller \in ApprovedFor(Nominal)

Extracted ==
    Min(mlast.params.amount,
        mlast.pre.escrow_table[Nominal] - mlast.pre.locked_table[Nominal])

\* C13: a WithdrawBalance(addr, amount) with amount >= 0 by an approved caller
\* extracts x = min(amount, escrow - locked) of the nominal holder, lowers the
\* holder's escrow entry by x and nothing else, sends exactly x to the
\* recipient (the owner for a miner, the holder itself otherwise) in its one
\* send of funds, and returns Ok when that send succeeds, also when x < amount.
C13_WithdrawExtractsAvailable ==
    ApprovedWithdraw =>
        /\ mlast.code \in {Ok, SendFailed}
        /\ FundsSent(mlast.trace) = <<MSend(RecipientOf(Nominal), "Send", Extracted)>>
        /\ mlast.code = Ok =>
              MarketState = [mlast.pre EXCEPT !.escrow_table[Nominal] = @ - Extracted]

\* the worker of a miner asks for 2 when 1 of the miner's 2 is locked: 1 goes
\* to the owner and the call returns Ok
C13_Witness ==
    /\ ApprovedWithdraw /\ mlast.code = Ok
    /\ mlast.params.addr = MinerM /\ mlast.caller = Worker
    /\ mlast.params.amount = 2
    /\ mlast.pre.escrow_table[MinerM] = 2 /\ mlast.pre.locked_table[MinerM] = 1
    /\ escrow_table[MinerM] = 1
    /\ FundsSent(mlast.trace) = <<MSend(Owner, "Send", 1)>>

\* C14: whatever the sequence of AddBalance, WithdrawBalance and
\* PublishStorageDeals calls (and of the other methods), no holder's locked
\* balance exceeds its escrow balance.
C14_LockedWithinEscrow ==
    \A a \in Holders : locked_table[a] <= escrow_table[a]

\* a withdrawal that had to stop at the locked amount, funds being locked by a
\* published deal: the whole of the remaining escrow is locked
C14_Witness ==
    /\ MOk("WithdrawBalance")
    /\ mlast.pre.locked_table[Nominal] > 0
    /\ mlast.pre.escrow_table[Nominal] > mlast.pre.locked_table[Nominal]
    /\ locked_table[Nominal] = escrow_table[Nominal]
    /\ DOMAIN proposals # {}

RECURSIVE SumOver(_, _)
SumOver(f, S) ==
    IF S = {} THEN 0
    ELSE LET a == CHOOSE x \in S : TRUE IN f[a] + SumOver(f, S \ {a})

\* sum(escrow_table) - sum(locked_table) + amount_slashed_outstanding; nothing
\* is held as slashed between calls (cron_tick sends what it slashed at once)
AvailableFunds(st) == SumOver(st.escrow_table, Holders) - SumOver(st.locked_table, Holders)

NonCronMethods ==
    {"AddBalance", "WithdrawBalance", "PublishStorageDeals", "VerifyDealsForActivation",
     "ActivateDeals", "OnMinerSectorsTerminate"}

\* C15 as stated: sum(escrow_table) - sum(locked_table) +
\* amount_slashed_outstanding has the same value before and after every call
\* of a non-cron method.
C15_EscrowConserved ==
    mlast.method \in NonCronMethods => AvailableFunds(MarketState) = AvailableFunds(mlast.pre)

RECURSIVE SumSeq(_, _)
SumSeq(s, i) == IF i > Len(s) THEN 0 ELSE s[i] + SumSeq(s, i + 1)

AmountsSent(trace) == [i \in 1..Len(FundsSent(trace)) |-> FundsSent(trace)[i].value]
Requirements(deals) ==
    [i \in 1..Len(deals) |-> client_balance_requirement(deals[i].proposal)
                               + provider_balance_requirement(deals[i].proposal)]

\* C15 amended: a successful call of a non-cron method changes
\* sum(escrow_table) - sum(locked_table) by exactly the funds that moved: up by
\* the value received in AddBalance, down by the amount sent in
\* WithdrawBalance, down by the clients' and the provider's requirements that
\* PublishStorageDeals locks (escrow unchanged); VerifyDealsForActivation,
\* ActivateDeals and OnMinerSectorsTerminate leave both tables as they were.
C15_AvailableFollowsFunds ==
    (mlast.method \in NonCronMethods /\ mlast.code = Ok) =>
        /\ IsM("AddBalance") =>
              AvailableFunds(MarketState) = AvailableFunds(mlast.pre) + mlast.params.amount
        /\ IsM("WithdrawBalance") =>
              AvailableFunds(MarketState) =
                  AvailableFunds(mlast.pre) - SumSeq(AmountsSent(mlast.trace), 1)
        /\ IsM("PublishStorageDeals") =>
              /\ escrow_table = mlast.pre.escrow_table
              /\ AvailableFunds(MarketState) =
                     AvailableFunds(mlast.pre) - SumSeq(Requirements(mlast.params.deals), 1)
        /\ mlast.method \in {"VerifyDealsForActivation", "ActivateDeals",
                             "OnMinerSectorsTerminate"} =>
              /\ escrow_table = mlast.pre.escrow_table
              /\ locked_table = mlast.pre.locked_table

\* a publication that locks the collateral of both the client and the provider
C15_Witness ==
    /\ MOk("PublishStorageDeals")
    /\ AvailableFunds(MarketState) = AvailableFunds(mlast.pre) - 2
    /\ locked_table[Client] = mlast.pre.locked_table[Client] + 1
    /\ locked_table[MinerM] = mlast.pre.locked_table[MinerM] + 1

(***************************************************************************)
(* Properties of PublishStorageDeals.                                      *)
(***************************************************************************)
\* the proposal as stored: provider and client replaced by their ID addresses
Normalised(p) ==
    [p EXCEPT !.provider = resolve_address(p.provider), !.client = resolve_address(p.client)]

\* C16: the deal ids of a successful PublishStorageDeals are returned one per
\* submitted deal in the order of submission, are strictly increasing within
\* the batch and greater than every id assigned by earlier calls, and name the
\* submitted proposals; no call gives the id of a stored proposal to another
\* proposal, and every stored id is below the next id to assign.
C16_DealIdsStrictlyIncrease ==
    /\ \A id \in DOMAIN proposals : id < next_id
    /\ mlast.method # "none" =>
          /\ next_id >= mlast.pre.next_id
          /\ \A id \in DOMAIN mlast.pre.proposals \cap DOMAIN proposals :
                proposals[id] = mlast.pre.proposals[id]
    /\ MOk("PublishStorageDeals") =>
          LET ids == mlast.ret.ids
          IN /\ Len(ids) = Len(mlast.params.deals)
             /\ \A i \in 1..Len(ids) :
                   /\ i > 1 => ids[i - 1] < ids[i]
                   /\ \A old \in DOMAIN mlast.pre.proposals : old < ids[i]
                   /\ ids[i] \in DOMAIN proposals
                   /\ proposals[ids[i]] = Normalised(mlast.params.deals[i].proposal)

\* a second publication, whose deal gets the id after the first one's
C16_Witness ==
    /\ MOk("PublishStorageDeals")
    /\ DOMAIN mlast.pre.proposals = {0}
    /\ mlast.ret.ids = <<1>>
    /\ proposals[1] # proposals[0]

\* a batch of two deals, numbered in the order of submission
C16_WitnessBatch ==
    /\ MOk("PublishStorageDeals")
    /\ mlast.ret.ids = <<0, 1>>
    /\ proposals[0] = Normalised(mlast.params.deals[1].proposal)
    /\ proposals[1] = Normalised(mlast.params.deals[2].proposal)
    /\ proposals[0] # proposals[1]

BatchProposal(i) == Normalised(mlast.params.deals[i].proposal)

\* some proposal of the batch is already pending, from an earlier call or from
\* earlier in the batch
IsDuplicate(i) ==
    \/ BatchProposal(i) \in mlast.pre.pending_proposals
    \/ \E j \in 1..(i - 1) : BatchProposal(j) = BatchProposal(i)
DuplicateInBatch == \E i \in 1..Len(mlast.params.deals) : IsDuplicate(i)

BatchProvider == resolve_address(mlast.params.deals[1].proposal.provider)

\* what the batch asks to lock of holder a's funds
BatchRequirement(a) ==
    SumSeq([i \in 1..Len(mlast.params.deals) |->
               (IF BatchProposal(i).client = a
                THEN client_balance_requirement(BatchProposal(i)) ELSE 0)
               + (IF BatchProposal(i).provider = a
                  THEN provider_balance_requirement(BatchProposal(i)) ELSE 0)], 1)

\* a batch sent by the worker of its provider, whose deals all pass
\* validate_deal and name that provider and a client that resolves
BatchWellFormed ==
    /\ IsM("PublishStorageDeals")
    /\ mlast.params.deals # <<>>
    /\ CodeOf(mlast.caller) \in CALLER_TYPES_SIGNABLE
    /\ BatchProvider # NoAddr /\ CodeOf(BatchProvider) = "miner"
    /\ request_miner_control_addrs(BatchProvider).worker = mlast.caller
    /\ \A i \in 1..Len(mlast.params.deals) :
          /\ validate_deal(mlast.params.deals[i], mlast.epoch) = "ok"
          /\ BatchProposal(i).provider = BatchProvider
          /\ BatchProposal(i).client # NoAddr

\* the parties have the funds for every lock the batch asks for
BatchFunded ==
    \A a \in Holders :
        BatchRequirement(a) <= mlast.pre.escrow_table[a] - mlast.pre.locked_table[a]

BatchPassesValidation == BatchWellFormed /\ BatchFunded

\* what the batch's deals that are not duplicates ask to lock of a's funds
NewRequirement(a) ==
    SumSeq([i \in 1..Len(mlast.params.deals) |->
               IF IsDuplicate(i) THEN 0
               ELSE (IF BatchProposal(i).client = a
                     THEN client_balance_requirement(BatchProposal(i)) ELSE 0)
                    + (IF BatchProposal(i).provider = a
                       THEN provider_balance_requirement(BatchProposal(i)) ELSE 0)], 1)
FundedButForDuplicates ==
    \A a \in Holders :
        NewRequirement(a) <= mlast.pre.escrow_table[a] - mlast.pre.locked_table[a]

\* C17 as stated: a batch holding a proposal that is already pending (its
\* deals valid, sent by the provider's worker, the parties funded for the
\* deals that are new) fails with ErrIllegalArgument and leaves the market
\* state as it was.
C17_DuplicateIsIllegalArgument ==
    (BatchWellFormed /\ DuplicateInBatch /\ FundedButForDuplicates) =>
        /\ mlast.code = ErrIllegalArgument
        /\ MarketState = mlast.pre

\* What the code does ensure: a PublishStorageDeals whose batch holds a
\* proposal that is already pending, from an earlier call or from earlier in the same batch,
\* fails and publishes none of its deals: proposals, pending proposals, deals
\* by epoch, escrow, locked and the next deal id are as before the call, and
\* no id is returned; the failure is ErrIllegalArgument when the parties have
\* the funds for the batch's locks, which are taken before the duplicate
\* check, and ErrInsufficientFunds or ErrIllegalArgument when they have not.
C17_DuplicateRejected ==
    (IsM("PublishStorageDeals") /\ DuplicateInBatch) =>
        /\ mlast.code # Ok
        /\ MarketState = mlast.pre
        /\ mlast.ret.ids = <<>>
        /\ BatchPassesValidation => mlast.code = ErrIllegalArgument
        /\ BatchWellFormed => mlast.code \in {ErrIllegalArgument, ErrInsufficientFunds}

\* the batch republishes the deal an earlier call published, the provider
\* having the funds for a second lock
C17_Witness ==
    /\ BatchPassesValidation /\ DuplicateInBatch
    /\ mlast.code = ErrIllegalArgument
    /\ BatchProposal(1) \in mlast.pre.pending_proposals
    /\ mlast.pre.locked_table[MinerM] = 1
    /\ locked_table[MinerM] = 1
    /\ next_id = 1

\* the batch holds the same deal twice
C17_WitnessSameBatch ==
    /\ BatchPassesValidation /\ DuplicateInBatch
    /\ mlast.code = ErrIllegalArgument
    /\ mlast.pre.pending_proposals = {}
    /\ pending_proposals = {}

IsUseBytes(c) == c.op = "send" /\ c.method = "UseBytes"
UseBytesSent(trace) == SelectSeq(trace, IsUseBytes)

\* one UseBytes per verified deal of the batch, in the order of the deals,
\* for the client's ID address and the deal's piece size
RECURSIVE UseBytesExpected(_, _)
UseBytesExpected(deals, i) ==
    IF i > Len(deals) THEN <<>>
    ELSE IF deals[i].proposal.verified_deal
    THEN <<UseBytes(resolve_address(deals[i].proposal.client), deals[i].proposal.piece_size)>>
         \o UseBytesExpected(deals, i + 1)
    ELSE UseBytesExpected(deals, i + 1)

\* C18 as stated: for a batch that passes validation (no send failing),
\* PublishStorageDeals sends exactly one UseBytes(client, piece_size) to the
\* verified registry for every verified deal, with the client's ID address
\* whatever form of address the proposal used, and returns the new deal ids.
C18_UseBytesPerVerifiedDeal ==
    (BatchPassesValidation /\ ~DuplicateInBatch /\ mlast.code # SendFailed) =>
        /\ mlast.code = Ok
        /\ UseBytesSent(mlast.trace) = UseBytesExpected(mlast.params.deals, 1)
        /\ Len(mlast.ret.ids) = Len(mlast.params.deals)

\* What the code does ensure: the same for the batches whose verified deals
\* name their client by its ID address.
C18_UseBytesForIdClients ==
    (BatchPassesValidation /\ ~DuplicateInBatch /\ mlast.code # SendFailed
        /\ \A i \in 1..Len(mlast.params.deals) :
              mlast.params.deals[i].proposal.verified_deal
                  => IsIdAddress(mlast.params.deals[i].proposal.client)) =>
        /\ mlast.code = Ok
        /\ UseBytesSent(mlast.trace) = UseBytesExpected(mlast.params.deals, 1)
        /\ Len(mlast.ret.ids) = Len(mlast.params.deals)

\* a verified deal of a client named by its ID address is published
C18_WitnessIdClient ==
    /\ MOk("PublishStorageDeals")
    /\ UseBytesSent(mlast.trace) = <<UseBytes(Client, 1)>>

ClientCollateralOutOfBounds(p) ==
    LET cc == deal_client_collateral_bounds(p.piece_size, duration(p))
    IN p.client_collateral < cc.min \/ p.client_collateral > cc.max

\* the batch comes from the worker of the miner its first deal names
SentByProvidersWorker ==
    /\ IsM("PublishStorageDeals")
    /\ mlast.params.deals # <<>>
    /\ CodeOf(mlast.caller) \in CALLER_TYPES_SIGNABLE
    /\ BatchProvider # NoAddr /\ CodeOf(BatchProvider) = "miner"
    /\ request_miner_control_addrs(BatchProvider).worker = mlast.caller

\* C19 as stated: PublishStorageDeals rejects every deal whose client
\* collateral is outside the client collateral bounds: a batch holding such a
\* deal is not published, and the code is ErrIllegalArgument when the deal is
\* the first of a batch sent by the provider's worker.
C19_ClientCollateralChecked ==
    (IsM("PublishStorageDeals") /\ mlast.params.deals # <<>>) =>
        /\ (\E i \in 1..Len(mlast.params.deals) :
               ClientCollateralOutOfBounds(mlast.params.deals[i].proposal))
              => mlast.code # Ok /\ MarketState = mlast.pre
        /\ (SentByProvidersWorker
               /\ ClientCollateralOutOfBounds(mlast.params.deals[1].proposal))
              => mlast.code = ErrIllegalArgument

\* What the code does ensure: the bounds of the client's collateral are
\* applied to the provider's collateral.
C19_ProviderCollateralInClientBounds ==
    MOk("PublishStorageDeals") =>
        \A i \in 1..Len(mlast.params.deals) :
            LET p == mlast.params.deals[i].proposal
                cc == deal_client_collateral_bounds(p.piece_size, duration(p))
            IN p.provider_collateral >= cc.min /\ p.provider_collateral <= cc.max

\* a deal whose client collateral is above the client's bounds is published
C19_OutOfBoundsPublished ==
    /\ MOk("PublishStorageDeals")
    /\ ClientCollateralOutOfBounds(mlast.params.deals[1].proposal)
    /\ locked_table[Client] = 2

(***************************************************************************)
(* Properties of VerifyDealsForActivation.                                 *)
(***************************************************************************)
ListedDeal(i) == mlast.pre.proposals[mlast.params.deal_ids[i]]

\* the sum of duration x piece_size over the listed deals that are (are not)
\* verified deals
WeightOfListed(verified) ==
    SumSeq([i \in 1..Len(mlast.params.deal_ids) |->
               IF ListedDeal(i).verified_deal = verified
               THEN (ListedDeal(i).end_epoch - ListedDeal(i).start_epoch)
                        * ListedDeal(i).piece_size
               ELSE 0], 1)

VerifyReturnsWeights ==
    /\ mlast.ret.deal_weight = WeightOfListed(FALSE)
    /\ mlast.ret.verified_deal_weight = WeightOfListed(TRUE)
    /\ MarketState = mlast.pre

\* C20 as stated: VerifyDealsForActivation succeeds only if every listed deal
\* exists, has the caller as provider, starts no earlier than the chain's
\* current epoch and ends no later than sector_expiry; it then returns the
\* sums of duration x piece_size of the regular and of the verified deals and
\* leaves the market state unchanged.
C20_VerifyChecksCurrentEpoch ==
    MOk("VerifyDealsForActivation") =>
        /\ \A i \in 1..Len(mlast.params.deal_ids) :
              /\ mlast.params.deal_ids[i] \in DOMAIN mlast.pre.proposals
              /\ ListedDeal(i).provider = mlast.caller
              /\ mlast.epoch <= ListedDeal(i).start_epoch
              /\ ListedDeal(i).end_epoch <= mlast.params.sector_expiry
        /\ VerifyReturnsWeights

\* What the code does ensure: the same with the sector_start of the
\* parameters in the place of the chain's current epoch; a call, failed or
\* not, leaves the market state unchanged.
C20_VerifyChecksSectorStart ==
    IsM("VerifyDealsForActivation") =>
        /\ MarketState = mlast.pre
        /\ mlast.code = Ok =>
              /\ \A i \in 1..Len(mlast.params.deal_ids) :
                    /\ mlast.params.deal_ids[i] \in DOMAIN mlast.pre.proposals
                    /\ ListedDeal(i).provider = mlast.caller
                    /\ mlast.params.sector_start <= ListedDeal(i).start_epoch
                    /\ ListedDeal(i).end_epoch <= mlast.params.sector_expiry
              /\ VerifyReturnsWeights

\* a verified and a regular deal are weighed
C20_WitnessWeights ==
    /\ MOk("VerifyDealsForActivation")
    /\ Len(mlast.params.deal_ids) = 2
    /\ mlast.ret.deal_weight = 1 /\ mlast.ret.verified_deal_weight = 1

(***************************************************************************)
(* Properties of ActivateDeals and OnMinerSectorsTerminate.                *)
(***************************************************************************)
ListedIds == {mlast.params.deal_ids[i] : i \in 1..Len(mlast.params.deal_ids)}
FreshDealState(epoch) ==
    [sector_start_epoch |-> epoch, last_updated_epoch |-> EPOCH_UNDEFINED,
     slash_epoch |-> EPOCH_UNDEFINED]
RepeatsAnId ==
    \E i, j \in 1..Len(mlast.params.deal_ids) :
        i < j /\ mlast.params.deal_ids[i] = mlast.params.deal_ids[j]

\* C21: a successful ActivateDeals gives every listed deal id the state
\* {sector_start = current epoch, last_updated = UNDEFINED, slash_epoch =
\* UNDEFINED}; each listed deal was a pending proposal without a state before
\* the call, so a deal is activated at most once; the other deal states and
\* the rest of the market are unchanged; a call that fails, as one whose list
\* repeats an id does, changes nothing.
C21_ActivateOnce ==
    IsM("ActivateDeals") =>
        /\ mlast.code # Ok => MarketState = mlast.pre
        /\ RepeatsAnId => mlast.code # Ok
        /\ mlast.code = Ok =>
              /\ \A id \in ListedIds :
                    /\ id \in DOMAIN mlast.pre.proposals
                    /\ mlast.pre.proposals[id] \in mlast.pre.pending_proposals
                    /\ id \notin DOMAIN mlast.pre.states
                    /\ id \in DOMAIN states
                    /\ states[id] = FreshDealState(mlast.epoch)
              /\ DOMAIN states = (DOMAIN mlast.pre.states) \cup ListedIds
              /\ \A id \in DOMAIN mlast.pre.states : states[id] = mlast.pre.states[id]
              /\ MarketState = [mlast.pre EXCEPT !.states = states]

\* two deals are activated in one call
C21_Witness ==
    /\ MOk("ActivateDeals")
    /\ Len(mlast.params.deal_ids) = 2
    /\ DOMAIN mlast.pre.states = {}
    /\ DOMAIN states = {0, 1}

\* an activation of an active deal together with a new one fails and adds
\* no state
C21_WitnessSecondActivation ==
    /\ IsM("ActivateDeals") /\ mlast.code = ErrIllegalArgument
    /\ DOMAIN mlast.pre.states = {0}
    /\ mlast.params.deal_ids = <<1, 0>>
    /\ 1 \in DOMAIN proposals
    /\ DOMAIN states = {0}

\* a listed deal that exists, belongs to the caller, has not expired at
\* params.epoch and has a state that is not slashed
ToSlash(id) ==
    /\ id \in ListedIds
    /\ id \in DOMAIN mlast.pre.proposals
    /\ mlast.pre.proposals[id].provider = mlast.caller
    /\ mlast.pre.proposals[id].end_epoch > mlast.params.epoch
    /\ id \in DOMAIN mlast.pre.states
    /\ mlast.pre.states[id].slash_epoch = EPOCH_UNDEFINED

C23_ComputesCommitment ==
    (IsM("ComputeDataCommitment") /\ CodeOf(mlast.caller) = "miner") =>
        /\ mlast.code # Panic
        /\ \E i \in 1..Len(mlast.trace) : mlast.trace[i].op = "compute_unsealed_sector_cid"

\* What the code does ensure: a caller that is not a miner is refused.
C23_RefusesOtherCallers ==
    (IsM("ComputeDataCommitment") /\ CodeOf(mlast.caller) # "miner") =>
        mlast.code = SysErrForbidden /\ MarketState = mlast.pre

\* C24 as stated: after a successful CronTick at epoch E, last_cron = E, no
\* deals_by_epoch entry is left for an epoch up to E, and one send to the
\* burnt-funds actor carries the amount slashed in the tick.
C24_CronAdvances ==
    MOk("CronTick") =>
        /\ last_cron = mlast.epoch
        /\ \A op \in deal_ops_by_epoch : op[1] > mlast.epoch
        /\ Len(FundsSent(mlast.trace)) = 1
        /\ FundsSent(mlast.trace)[1].to = BurntFunds

\* What the code does ensure: CronTick leaves the market state as it was,
\* last_cron and deals_by_epoch included, and a successful call sends 0 to
\* the burnt-funds actor.
C24_CronDoesNothing ==
    IsM("CronTick") =>
        /\ MarketState = mlast.pre
        /\ mlast.code = Ok => FundsSent(mlast.trace) = <<MSend(BurntFunds, "Send", 0)>>

\* C25: the market's Constructor succeeds only when the system actor calls
\* it, and then the state has no proposal, no deal state, no pending
\* proposal, no escrow or locked balance, no deal op of any epoch, and
\* last_cron = EPOCH_UNDEFINED; any other caller is refused with
\* SysErrForbidden and nothing is created.
C25_ConstructorBySystemOnly ==
    IsM("Constructor") =>
        /\ mlast.code = Ok =>
              /\ mlast.caller = SystemActor
              /\ m_created
              /\ DOMAIN proposals = {} /\ DOMAIN states = {}
              /\ pending_proposals = {}
              /\ \A a \in Holders : escrow_table[a] = 0 /\ locked_table[a] = 0
              /\ deal_ops_by_epoch = {}
              /\ last_cron = EPOCH_UNDEFINED
        /\ mlast.caller # SystemActor =>
              /\ mlast.code = SysErrForbidden
              /\ MarketState = mlast.pre
              /\ ~\E i \in 1..Len(mlast.trace) : mlast.trace[i].op = "create"

\* the system actor constructs the market
C25_Witness ==
    /\ MOk("Constructor") /\ mlast.caller = SystemActor
    /\ m_created /\ last_cron = EPOCH_UNDEFINED
    /\ mlast.trace = <<MCall("validate_immediate_caller_is"), MCall("create")>>

\* another caller is refused
C25_WitnessRefused ==
    /\ IsM("Constructor") /\ mlast.caller = Worker /\ mlast.code = SysErrForbidden
    /\ ~m_created

\* the log holds no caller validation, no send and no access to the state
NoRuntimeEffect(trace) ==
    \A i \in 1..Len(trace) :
        /\ ~IsValidateCall(trace[i])
        /\ ~IsStateAccess(trace[i])
        /\ trace[i].op \notin {"send", "create"}

\* C26: invoke_method of the Market actor with a method number outside 1..9,
\* and of the Payment-channel actor with a method number outside 1..4,
\* returns SysErrInvalidMethod without validating the caller, sending or
\* touching the state; a number of the table never gets that code.
C26_InvalidMethod ==
    /\ mlast.method # "none" =>
          IF mlast.num \in 1..9
          THEN mlast.code # SysErrInvalidMethod
          ELSE /\ mlast.code = SysErrInvalidMethod
               /\ NoRuntimeEffect(mlast.trace)
               /\ MarketState = mlast.pre
    /\ last.method # "none" =>
          IF last.num \in 1..4
          THEN last.code # SysErrInvalidMethod
          ELSE /\ last.code = SysErrInvalidMethod
               /\ NoRuntimeEffect(last.trace)
               /\ PaychState = last.pre

\* method 5 of a constructed channel and method 10 of a constructed market
C26_Witness ==
    /\ created /\ m_created
    /\ last.method = "None" /\ last.num = 5 /\ last.code = SysErrInvalidMethod
    /\ mlast.method = "None" /\ mlast.num = 10 /\ mlast.code = SysErrInvalidMethod

\* method 0 of both actors
C26_WitnessZero ==
    /\ last.method = "None" /\ last.num = 0
    /\ mlast.method = "None" /\ mlast.num = 0


MeteredCalls ==
    {"verify_signature", "hash_blake2b", "compute_unsealed_sector_cid", "verify_seal",
     "verify_post", "verify_consensus_fault"}

ChargeFits == glast.pre + glast.amount <= gas_limit

\* C27: a metered syscall of the wrapper charges gas first and calls the
\* backend after it; when the charge fails the call returns the charge's
\* error, SysErrOutOfGas, and the backend is not called at all.
C27_ChargesBeforeDelegating ==
    glast.call \in MeteredCalls =>
        /\ glast.trace # <<>>
        /\ glast.trace[1] = "charge_gas"
        /\ ChargeFits => glast.trace = <<"charge_gas", "backend">>
        /\ ~ChargeFits =>
            /\ glast.code = SysErrOutOfGas
            /\ glast.trace = <<"charge_gas">>

C27_Witness ==
    /\ glast.call = "verify_signature"
    /\ glast.pre > gas_start
    /\ glast.code = SysErrOutOfGas

C27_WitnessDelegated ==
    /\ glast.call = "verify_post"
    /\ glast.code = BackendError
    /\ gas_used = glast.pre + 1

\* C28: while no charge has failed, gas_used is its value at construction plus
\* the sum of the charges of the metered calls made; gas_used never
\* decreases and never exceeds gas_limit; batch_verify_seals leaves it alone.
C28_GasUsedIsSumOfCharges ==
    /\ ~gas_failed => gas_used = gas_start + gas_charged
    /\ gas_used <= gas_limit
    /\ glast # GNoCall => gas_used >= glast.pre
    /\ glast.call = "batch_verify_seals" => gas_used = glast.pre

C28_Witness ==
    /\ ~gas_failed
    /\ gas_start = 1
    /\ gas_charged >= 6
    /\ glast.call = "hash_blake2b"
    /\ glast.amount = 2

C28_WitnessBatch ==
    /\ ~gas_failed
    /\ gas_charged > 0
    /\ glast.call = "batch_verify_seals"


DecodesBack(a) ==
    LET r == Address_from_bytes(Address_to_bytes(a))
    IN r.err = Ok /\ address_eq(r.addr, a)

EncodesBack == (alast.op = "from_bytes" /\ alast.err = Ok) => Address_to_bytes(address) = alast.input

\* C29: the binary codec is a bijection: every address, of any network and
\* protocol, is what from_bytes makes of its to_bytes, and every byte string
\* that from_bytes accepts is the to_bytes of the address it yields.
C29_BinaryCodecBijection ==
    /\ address # NoAddress => DecodesBack(address)
    /\ EncodesBack


\* two addresses of the same protocol and payload
SameProtocolAndPayload(a, b) == a # NoAddress /\ b # NoAddress /\ a.payload = b.payload

\* C30: equality and hashing ignore the network: two addresses of the same
\* protocol and payload are equal, and hash alike, whatever their networks;
\* the address parsed from "f..." equals the one parsed from "t...", and
\* an address equals what it was before set_network.
C30_EqualityIgnoresNetwork ==
    SameProtocolAndPayload(address, alast.before) =>
        /\ address_eq(address, alast.before)
        /\ address_hash_feed(address) = address_hash_feed(alast.before)


TypedErrors ==
    {"InvalidLength", "UnknownNetwork", "UnknownProtocol", "InvalidPayload",
     "InvalidChecksum"}

\* C31: from_str returns Ok or one of the typed errors for every string and
\* never panics, also when the base32 body of a protocol 1-3 string decodes
\* to fewer than the four checksum bytes.
C31_FromStrTypedErrors ==
    alast.op = "from_str" => alast.err \in {Ok} \cup TypedErrors


\* bit i is in one of the underlying ranges
InUnderlyingRanges(i) ==
    \E k \in 1..Len(bf_ranges) : bf_ranges[k].start <= i /\ i < bf_ranges[k].end

\* what get(i) owes to the last operation applied to bit i
ExpectedBit(i) ==
    CASE bf_touched[i] = "set" -> TRUE
      [] bf_touched[i] = "unset" -> FALSE
      [] OTHER -> InUnderlyingRanges(i)

\* C32: after any sequence of set and unset, get(i) is true when the last
\* operation on i was set, false when it was unset, and the value the
\* underlying ranges give when i was never touched.
C32_GetReflectsLastOperation ==
    /\ \A i \in Bits : BitField_get(ThisBitField, i) = ExpectedBit(i)
    /\ blast.op = "get" => blast.out[1] = ExpectedBit(blast.args[1])

C32_Witness ==
    /\ blast.op = "get"
    /\ bf_touched[blast.args[1]] = "unset"
    /\ InUnderlyingRanges(blast.args[1])
    /\ blast.out[1] = FALSE
    /\ \E j \in Bits : bf_touched[j] = "set" /\ ~InUnderlyingRanges(j)

C32_WitnessSetAfterUnset ==
    /\ blast.op = "set"
    /\ blast.args[1] \notin bf_unset
    /\ ~InUnderlyingRanges(blast.args[1])
    /\ Len(bf_ranges) = 2


Yielded == BitField_iter(ThisBitField)

\* C33: for every bit field reached by set and unset over any initial ranges,
\* iter() is strictly ascending, yields len() values, yields i exactly when
\* get(i) is true, first() is the first value of iter() (None when there is
\* none), and is_empty() holds exactly when len() is 0.
C33_IterAgreesWithLenGetFirst ==
    /\ \A k \in 1..(Len(Yielded) - 1) : Yielded[k] < Yielded[k + 1]
    /\ Len(Yielded) = BitField_len(ThisBitField)
    /\ \A i \in Bits : (\E k \in 1..Len(Yielded) : Yielded[k] = i) <=> BitField_get(ThisBitField, i)
    /\ BitField_first(ThisBitField) = IF Yielded = <<>> THEN None ELSE Some(Yielded[1])
    /\ BitField_is_empty(ThisBitField) <=> BitField_len(ThisBitField) = 0

\* first() answered with a bit of the ranges while lower bits are unset and
\* a higher bit is set
C33_Witness ==
    /\ blast.op = "first"
    /\ blast.out[1].some
    /\ InUnderlyingRanges(blast.out[1].value)
    /\ \E i \in bf_unset : i < blast.out[1].value /\ InUnderlyingRanges(i)
    /\ bf_set # {}
    /\ Len(Yielded) >= 2

C33_WitnessEmptied ==
    /\ blast.op = "is_empty"
    /\ blast.out[1] = TRUE
    /\ bf_ranges # <<>>


SliceIsRanks(r, start, n) ==
    /\ r.err = Ok
    /\ BitField_iter(r.bf) = SubSeq(Yielded, start + 1, start + n)

\* C34: slice(start, len) is an error whenever the bit field has fewer than
\* start + len set bits, for every len, 0 included; otherwise it is the set
\* bits of rank start .. start + len - 1, in ascending order.
C34_SliceErrsWhenTooFew ==
    blast.op = "slice" =>
        IF BitField_len(ThisBitField) < blast.args[1] + blast.args[2]
        THEN blast.out[1].err # Ok
        ELSE SliceIsRanks(blast.out[1], blast.args[1], blast.args[2])


HasKey(k) == k \in DOMAIN hlast.map

\* C35: decoding a pointer rejects every map that has both key "0" and key
\* "1" and every map that has neither; a map with only "0" decodes to Link
\* and one with only "1" to Values; encoding a Cache pointer is an error,
\* and Link and Values decode back from their encoding.
C35_PointerCodec ==
    /\ hlast.op = "deserialize" =>
        /\ (HasKey("0") /\ HasKey("1")) => hlast.err # Ok
        /\ (~HasKey("0") /\ ~HasKey("1")) => hlast.err # Ok
        /\ (HasKey("0") /\ ~HasKey("1")) => hlast.err = Ok /\ pointer = Link(hlast.map["0"])
        /\ (HasKey("1") /\ ~HasKey("0")) => hlast.err = Ok /\ pointer = Values(hlast.map["1"])
    /\ hlast.op = "serialize" =>
        IF hlast.input.kind = "Cache" THEN hlast.err # Ok
        ELSE /\ hlast.err = Ok
             /\ Pointer_deserialize(hlast.map) = [err |-> Ok, pointer |-> hlast.input]


Cleaned == hlast.input.pointers
AllBuckets(ps) == \A i \in 1..Len(ps) : ps[i].kind = "Values"
PairsOf(ps) == UNION {{ps[i].vals[k] : k \in 1..Len(ps[i].vals)} : i \in 1..Len(ps)}

RECURSIVE CountValues(_)
CountValues(ps) == IF ps = <<>> THEN 0 ELSE Len(ps[1].vals) + CountValues(Tail(ps))

\* one bucket holding exactly the pairs of the buckets of ps, each once
IsBucketOf(p, ps) ==
    /\ p.kind = "Values"
    /\ Len(p.vals) = CountValues(ps)
    /\ {p.vals[k] : k \in 1..Len(p.vals)} = PairsOf(ps)

\* C36: clean on a cached child: no pointer gives ZeroPointers; exactly one
\* pointer that is a bucket replaces the child by that bucket; 2 to
\* MAX_ARRAY_WIDTH pointers, all buckets of at most MAX_ARRAY_WIDTH values
\* together, replace the child by one bucket of exactly those pairs; in every
\* other case the child stays as it is.
C36_CleanCollapses ==
    hlast.op = "clean" =>
        CASE Len(Cleaned) = 0 -> hlast.err = "ZeroPointers" /\ pointer = hlast.input
          [] Len(Cleaned) = 1 /\ Cleaned[1].kind = "Values" ->
                hlast.err = Ok /\ pointer = Cleaned[1]
          [] Len(Cleaned) \in 2..MAX_ARRAY_WIDTH /\ AllBuckets(Cleaned)
                /\ CountValues(Cleaned) <= MAX_ARRAY_WIDTH ->
                hlast.err = Ok /\ IsBucketOf(pointer, Cleaned)
          [] OTHER -> hlast.err = Ok /\ pointer = hlast.input

C36_Witness ==
    /\ hlast.op = "clean"
    /\ Len(Cleaned) = 2
    /\ CountValues(Cleaned) = MAX_ARRAY_WIDTH
    /\ pointer.kind = "Values"
    /\ Len(pointer.vals) = MAX_ARRAY_WIDTH

C36_WitnessTooManyValues ==
    /\ hlast.op = "clean"
    /\ Len(Cleaned) = 2
    /\ AllBuckets(Cleaned)
    /\ CountValues(Cleaned) = MAX_ARRAY_WIDTH + 1
    /\ pointer = hlast.input

C36_WitnessLinkSibling ==
    /\ hlast.op = "clean"
    /\ Len(Cleaned) = 3
    /\ Cleaned[1].kind = "Values"
    /\ Cleaned[3].kind = "Link"
    /\ pointer = hlast.input

\* the pairs of a bucket are in the order of their keys
KeyOrdered(vals) == \A i, j \in 1..Len(vals) : i < j => vals[i][1] < vals[j][1]

Flattened ==
    /\ hlast.op = "clean"
    /\ Len(Cleaned) >= 2
    /\ pointer.kind = "Values"

\* C37: the bucket that clean makes of several child buckets lists its pairs
\* in the order of their keys, the order a bucket built by inserting those
\* keys has.
C37_FlattenedBucketIsCanonical ==
    Flattened =>
        /\ KeyOrdered(pointer.vals)
        /\ pointer.vals = bucket_of([k \in 1..Len(pointer.vals) |-> pointer.vals[k][1]])


IsPaych(method) == last.method = method

\* C38: across UpdateChannelState, Settle and Collect, min_settle_height and
\* settling_at never decrease, a non-zero settling_at never returns to 0,
\* and a non-zero settling_at is at least min_settle_height; a redeemed
\* voucher with min_settle_height m # 0 raises min_settle_height to
\* max(old, m) and a non-zero settling_at to max(old, m).
C38_SettleHeightsMonotone ==
    /\ settling_at # 0 => settling_at >= min_settle_height
    /\ (IsPaych("UpdateChannelState") \/ IsPaych("Settle") \/ IsPaych("Collect")) =>
        /\ min_settle_height >= last.pre.min_settle_height
        /\ settling_at >= last.pre.settling_at
        /\ last.pre.settling_at # 0 => settling_at # 0
    /\ (IsPaych("UpdateChannelState") /\ last.code = Ok /\ last.sv.min_settle_height # 0) =>
        /\ min_settle_height = Max(last.pre.min_settle_height, last.sv.min_settle_height)
        /\ last.pre.settling_at # 0 =>
            settling_at = Max(last.pre.settling_at, last.sv.min_settle_height)

\* a voucher redeemed while settling pushes settling_at and min_settle_height
C38_Witness ==
    /\ IsPaych("UpdateChannelState")
    /\ last.code = Ok
    /\ last.pre.settling_at # 0
    /\ last.sv.min_settle_height > last.pre.settling_at
    /\ settling_at = last.sv.min_settle_height
    /\ min_settle_height = last.sv.min_settle_height

C38_WitnessSettleAtMinimum ==
    /\ IsPaych("Settle")
    /\ last.code = Ok
    /\ settling_at = min_settle_height
    /\ settling_at > last.epoch + SETTLE_DELAY


\* the lanes a merge list names, each once
MergedLanes(merges) == {merges[i].lane : i \in 1..Len(merges)}

RECURSIVE SumRedeemedOver(_, _)
SumRedeemedOver(lanes, ids) ==
    IF ids = {} THEN 0
    ELSE LET id == CHOOSE x \in ids : TRUE
         IN  RedeemedOf(lanes, id) + SumRedeemedOver(lanes, ids \ {id})

\* what one UpdateChannelState took off the voucher's amount
Subtracted == last.sv.amount - (to_send - last.pre.to_send)

\* C39: a successful UpdateChannelState subtracts the previously redeemed
\* amount of each merged lane at most once, however often the merge list names
\* the lane: what is subtracted from the voucher's amount is the old redeemed
\* amount of the voucher's lane plus the sum over the distinct merged lanes.
C39_MergedLaneSubtractedOnce ==
    UcsOk =>
        Subtracted = RedeemedOf(last.pre.lane_states, last.sv.lane)
                       + SumRedeemedOver(last.pre.lane_states, MergedLanes(last.sv.merges))

\* the case of C39: one lane with a redeemed amount is named by two merge
\* entries with increasing nonces, and the voucher is redeemed
C39_LaneMergedTwice ==
    /\ UcsOk
    /\ Len(last.sv.merges) = 2
    /\ last.sv.merges[1].lane = last.sv.merges[2].lane
    /\ last.sv.merges[1].nonce < last.sv.merges[2].nonce
    /\ RedeemedOf(last.pre.lane_states, last.sv.merges[1].lane) > 0


(***************************************************************************)
(* Properties of the init actor's State.  Two addresses are the same       *)
(* address when their payloads are equal: the network is not part of the   *)
(* bytes the map is keyed by.                                              *)
(***************************************************************************)
MappingsOf(addr) == {i \in 1..Len(mapped) : mapped[i].addr.payload = addr.payload}
LatestMapping(addr) == mapped[CHOOSE i \in MappingsOf(addr) : \A j \in MappingsOf(addr) : j <= i]

\* C40: every map_address_to_new_id moves next_id up by exactly one, and a
\* successful one returns the ID address of the next_id it found, so the
\* returned ids are distinct and strictly increasing; resolve_address changes
\* nothing and returns an ID address as it is, the ID address of the latest
\* mapping for a mapped address and None for an unmapped one, and every
\* address it returns has protocol ID.
C40_InitStateMapsAndResolves ==
    /\ \A i, j \in 1..Len(mapped) : i < j => mapped[i].id < mapped[j].id
    /\ ilast.op = "map_address_to_new_id" =>
        /\ init_next_id = ilast.pre.next_id + 1
        /\ ilast.err = Ok =>
            /\ ilast.out.payload = PayloadID(ilast.pre.next_id)
            /\ mapped[Len(mapped)] = [addr |-> ilast.addr, id |-> ilast.pre.next_id]
    /\ (ilast.op = "resolve_address" /\ ilast.err = Ok) =>
        /\ ThisInitState = ilast.pre
        /\ CASE ilast.addr.payload.protocol = "ID" ->
                    ilast.found /\ ilast.out = ilast.addr
             [] MappingsOf(ilast.addr) # {} ->
                    ilast.found /\ ilast.out.payload = PayloadID(LatestMapping(ilast.addr).id)
             [] OTHER -> ~ilast.found
        /\ ilast.found => ilast.out.payload.protocol = "ID"

\* an address mapped twice resolves to the id of its second mapping
C40_Witness ==
    /\ ilast.op = "resolve_address" /\ ilast.err = Ok /\ ilast.found
    /\ ilast.addr.payload.protocol # "ID"
    /\ \E i, j \in MappingsOf(ilast.addr) :
            /\ i < j
            /\ ilast.out.payload.id = mapped[j].id
            /\ mapped[j].id > mapped[i].id

\* an address that was never mapped resolves to None although an Actor address
\* with the same hash bytes is mapped
C40_WitnessUnmapped ==
    /\ ilast.op = "resolve_address" /\ ilast.err = Ok /\ ~ilast.found
    /\ ilast.addr = Address_new_secp256k1(<<1>>).addr
    /\ \E i \in 1..Len(mapped) : mapped[i].addr = Address_new_actor(<<1>>).addr

\* a mapping that failed in the store still used up an id: the next mapping
\* returns an id two above the one before
C40_WitnessIdSkipped ==
    /\ ilast.op = "map_address_to_new_id" /\ ilast.err = Ok
    /\ Len(mapped) = 2
    /\ mapped[2].id = mapped[1].id + 2

\* an ID address that was itself mapped still resolves to itself
C40_WitnessIdAddress ==
    /\ ilast.op = "resolve_address" /\ ilast.found
    /\ ilast.addr.payload.protocol = "ID"
    /\ MappingsOf(ilast.addr) # {}
    /\ ilast.out = ilast.addr

====
